---------------------------- MODULE Spec2Model ----------------------------
(***************************************************************************)
(* Concurrency and ledger coordination layer of cafe-arcade-bot.           *)
(*                                                                         *)
(* One process-wide SQLite connection (src/db/connection.py) is shared by  *)
(* every coroutine.  Each `await conn.execute / commit / rollback` is one  *)
(* step of the issuing coroutine; between two steps of one coroutine any   *)
(* other coroutine may take steps.  The transaction state belongs to the   *)
(* connection, not to the coroutine: `db` is what the connection sees      *)
(* (committed plus uncommitted writes), `cdb` is what is committed.        *)
(*                                                                         *)
(* A handler is one task of the event loop serving one incoming event      *)
(* (a chat message, a slash command, a ledger call).                       *)
(***************************************************************************)
EXTENDS Integers, Sequences, FiniteSets, TLC

\* ------------------------------------------------------------------ bounds
NumProcs == 3        \* handlers (tasks) that may run concurrently
MaxFaults == 1       \* injected store errors
NumUsers == 2
NumChannels == 2
MaxUuid == 2         \* uuid4() session ids handed out
MaxTasks == 2        \* publisher tasks (debounce timers and direct refreshes)
MaxTime == 4         \* ticks of the clock
ThrottleTicks == 2   \* throttle window of the status edits (1.2 s / 1.0 s), in ticks
DebounceTicks == 2   \* LeaderboardConfig.debounce_seconds, in ticks
CooldownTicks == 2   \* cooldown_seconds of a command, in ticks

Procs == 1..NumProcs
Users == 1..NumUsers
Channels == 1..NumChannels
Deltas == {5, -3}
PerUnit == 1         \* RewardKey.WORD_CHAIN_ROUND_PAYOUT: beans per accepted word
Games == {"word_chain", "wordle"}
Tasks == 1..MaxTasks

\* session ids: uuid4 ids of Word Chain, then one fixed id per channel for Wordle
WordleSessionId(ch) == MaxUuid + ch
SessIds == 1..(MaxUuid + NumChannels)
\* asyncio.Lock objects that may ever be created
LockIds == 1..(NumChannels + NumProcs)

VARIABLES
    inTx,     \* the shared connection has an open transaction
    db,       \* tables as the connection sees them
    cdb,      \* tables as committed
    pc,       \* pc[p]: position of handler p
    loc,      \* loc[p]: arguments and locals of handler p
    faults,   \* number of injected store errors
    lockOf,   \* WordChainGame._channel_lock: channel -> lock object (0: no entry)
    holder,   \* holder[l]: handler inside `async with` of lock object l (0: unlocked)
    nlocks,   \* lock objects created so far
    nuuid,    \* uuid4 ids handed out so far
    accepted, \* accepted[s]: accepted Word Chain words counted against session s
    ptask,    \* ptask[t]: task t of the leaderboard publisher (timer runner or direct call)
    ntasks,   \* publisher tasks created so far
    pending,  \* LeaderboardPublisher._pending_task (0: None)
    pubLock,  \* task inside `async with self._lock` of refresh_now (0: unlocked)
    now,      \* loop.time(), in ticks
    posted,   \* messages sent to the leaderboard channel so far
    lastEdit, \* _last_status_edit_at / _last_edit_at: key -> time of the last edit (-1: no entry)
    editLock, \* editLock[k]: handler inside `async with` of the edit lock of key k (0: unlocked)
    edits,    \* edits[k]: times of the unforced status edits performed for key k
    last,     \* Cooldowns._last: key -> time.monotonic() of the last allowed check (-1: no entry)
    granted   \* granted[k]: times of the checks of key k that returned allowed

connVars == <<inTx, db, cdb>>
lockVars == <<lockOf, holder, nlocks>>
handlerVars == <<pc, loc, lockOf, holder, nlocks, nuuid, accepted>>
pubVars == <<ptask, ntasks, pending, pubLock, now, posted>>
editVars == <<lastEdit, editLock, edits>>
cdVars == <<last, granted>>
vars == <<inTx, db, cdb, pc, loc, faults, lockOf, holder, nlocks, nuuid, accepted,
          ptask, ntasks, pending, pubLock, now, posted, lastEdit, editLock, edits, last, granted>>

\* ------------------------------------------------------- pure helpers
RECURSIVE SumDeltas(_, _)
\* SUM(delta) over the rows of `rows` that belong to user u
SumDeltas(rows, u) ==
    IF rows = <<>> THEN 0
    ELSE (IF Head(rows).user = u THEN Head(rows).delta ELSE 0) + SumDeltas(Tail(rows), u)

RowsOf(rows, u) == {i \in 1..Len(rows) : rows[i].user = u}

\* balance column of bean_accounts, 0 when the account has no row
BalanceOf(d, u) == IF d.acct[u].exists THEN d.acct[u].balance ELSE 0

\* ------------------------------------------------- the shared connection
\* sqlite3 in legacy transaction control opens a transaction before INSERT /
\* UPDATE / DELETE when none is open; a write therefore leaves inTx TRUE.
ConnWrite(newdb) ==
    /\ db' = newdb
    /\ inTx' = TRUE
    /\ UNCHANGED cdb

\* conn.commit(): everything the connection has written becomes committed
ConnCommit ==
    /\ cdb' = db
    /\ inTx' = FALSE
    /\ UNCHANGED db

\* conn.rollback(): every uncommitted write of the connection is undone
ConnRollback ==
    /\ db' = cdb
    /\ inTx' = FALSE
    /\ UNCHANGED cdb

\* conn.execute("BEGIN;") succeeds only when no transaction is open
ConnBeginOk ==
    /\ ~inTx
    /\ inTx' = TRUE
    /\ UNCHANGED <<db, cdb, pubVars, editVars, cdVars>>

\* "cannot start a transaction within a transaction"
ConnBeginFails ==
    /\ inTx
    /\ UNCHANGED <<inTx, db, cdb, pubVars, editVars, cdVars>>

\* ------------------------------------------------------------ SQL statements
InsertOrIgnoreAccount(d, u) ==
    IF d.acct[u].exists THEN d ELSE [d EXCEPT !.acct[u] = [exists |-> TRUE, balance |-> 0]]

\* a statement that overwrites the newest row of the log instead of appending
InsertTransaction_Overwrite(d, u, delta, c) ==
    IF d.txn = <<>>
      THEN [d EXCEPT !.txn = Append(@, [user |-> u, delta |-> delta, call |-> c])]
      ELSE [d EXCEPT !.txn[Len(d.txn)] = [user |-> u, delta |-> delta, call |-> c]]

InsertTransaction(d, u, delta, c) ==
    [d EXCEPT !.txn = Append(@, [user |-> u, delta |-> delta, call |-> c])]

\* an UPDATE that keeps the balance at zero or above
UpdateBalance_Clamped(d, u, delta) ==
    IF d.acct[u].exists
      THEN [d EXCEPT !.acct[u].balance = IF @ + delta < 0 THEN 0 ELSE @ + delta]
      ELSE d

\* UPDATE bean_accounts SET balance = balance + ? WHERE user_id = ?
UpdateBalance(d, u, delta) ==
    IF d.acct[u].exists THEN [d EXCEPT !.acct[u].balance = @ + delta] ELSE d

\* thread_id is NULL (Python None)
NoThread == "NULL"

\* SQL `a IS b`: true when both are NULL or both are the same value
SqlIs(a, b) == a = b
\* SQL `a = b`: NULL, hence not true, when one side is NULL
SqlEq(a, b) == a # NoThread /\ b # NoThread /\ a = b

\* a condition under which a request without a thread matches every row
ThreadMatches_NullMatchesAny(col, arg) == arg = NoThread \/ SqlEq(col, arg)

\* (thread_id IS ? OR thread_id = ?) with the requested thread bound to both
ThreadMatches(col, arg) == SqlIs(col, arg) \/ SqlEq(col, arg)

\* WHERE platform = ? AND location_id = ? AND (thread_id IS ? OR thread_id = ?)
\*   AND game_key = ? AND status = 'active'
ActiveInScope(d, pf, ch, th, g) ==
    {s \in SessIds : /\ d.sess[s].exists
                     /\ d.sess[s].platform = pf
                     /\ d.sess[s].chan = ch
                     /\ ThreadMatches(d.sess[s].thread, th)
                     /\ d.sess[s].game = g
                     /\ d.sess[s].status = "active"}

\* the games call the repository with platform="discord", thread_id=None
ActiveIn(d, g, ch) == ActiveInScope(d, "discord", ch, NoThread, g)

\* INSERT ... ON CONFLICT(id) DO UPDATE SET status = 'active', state = excluded.state
\* (the scope columns of an existing row are not in the SET list)
UpsertRow(d, s, pf, ch, th, g, turn, streaks) ==
    IF d.sess[s].exists
      THEN [d EXCEPT !.sess[s].status = "active", !.sess[s].turn = turn,
                     !.sess[s].streaks = streaks]
      ELSE [d EXCEPT !.sess[s] = [exists |-> TRUE, platform |-> pf, thread |-> th,
                                   game |-> g, chan |-> ch,
                                   status |-> "active", turn |-> turn, streaks |-> streaks]]

UpsertActiveSession(d, s, g, ch, turn, streaks) ==
    UpsertRow(d, s, "discord", ch, NoThread, g, turn, streaks)

\* an UPDATE that ends every active session of the location of session s
EndSession_WholeLocation(d, s) ==
    [d EXCEPT !.sess = [x \in SessIds |->
        IF d.sess[s].exists /\ d.sess[x].exists /\ d.sess[x].chan = d.sess[s].chan
          THEN [d.sess[x] EXCEPT !.status = "ended"] ELSE d.sess[x]]]

\* UPDATE active_game_sessions SET status = ? WHERE id = ?
EndSession(d, s) ==
    IF d.sess[s].exists THEN [d EXCEPT !.sess[s].status = "ended"] ELSE d

\* UPDATE active_game_sessions SET status = ? WHERE <scope> AND status = 'active'
EndActiveInScope(d, pf, ch, th, g) ==
    [d EXCEPT !.sess = [s \in SessIds |->
        IF s \in ActiveInScope(d, pf, ch, th, g)
          THEN [d.sess[s] EXCEPT !.status = "ended"] ELSE d.sess[s]]]

EndActiveInLocation(d, g, ch) == EndActiveInScope(d, "discord", ch, NoThread, g)

\* ---------------------------------------------------------------- Init
NoAccount == [exists |-> FALSE, balance |-> 0]
\* _new_state(): "streaks": {}
NoStreaks == [u \in Users |-> 0]
NoSession == [exists |-> FALSE, platform |-> "", thread |-> NoThread, game |-> "",
              chan |-> 0, status |-> "", turn |-> 0, streaks |-> NoStreaks]
EmptyDb == [acct |-> [u \in Users |-> NoAccount],
            txn  |-> <<>>,
            sess |-> [s \in SessIds |-> NoSession],
            post |-> 0,
            inv  |-> [u \in Users |-> 0],
            users |-> <<>>]

\* at: loop.time() of the schedule_refresh call that created the runner;
\* start: loop.time() at which the task entered refresh_now (-1: it has not);
\* sent / saved: channel.send returned / upsert_message_id committed in this task
NoTask == [kind |-> "", pc |-> "none", cancel |-> FALSE, at |-> 0, wake |-> 0, msg |-> 0, out |-> "",
           start |-> -1, sent |-> FALSE, saved |-> FALSE]

\* the publisher after construction and set_bot
InitPublisher ==
    /\ ptask = [t \in Tasks |-> NoTask]
    /\ ntasks = 0
    /\ pending = 0
    /\ pubLock = 0
    /\ now = 0
    /\ posted = 0

\* streaks: state["streaks"] as read by the handler; todo: players of the payout
\* loop still to be paid; report: the line of the round summary per player
\* pre: balance of the account as the UPDATE of apply_transaction found it
\* raced: another caller wrote to the session table after this call's statement
\* force, checked: argument of the status edit, and when it passed the first check
NoLoc == [op |-> "", user |-> 0, delta |-> 0, ret |-> 0, pre |-> 0,
          platform |-> "", thread |-> NoThread, raced |-> FALSE,
          force |-> FALSE, checked |-> -1,
          game |-> "", chan |-> 0, sid |-> 0, turn |-> 0,
          streaks |-> NoStreaks, todo |-> {}, report |-> [u \in Users |-> ""]]

\* self._last = {}
InitCooldowns ==
    /\ last = [k \in Users |-> -1]
    /\ granted = [k \in Users |-> <<>>]

\* self._last_status_edit_at = {}; self._edit_lock = {}
InitEdits ==
    /\ lastEdit = [ch \in Channels |-> -1]
    /\ editLock = [ch \in Channels |-> 0]
    /\ edits = [ch \in Channels |-> <<>>]

Init ==
    /\ inTx = FALSE
    /\ db = EmptyDb
    /\ cdb = EmptyDb
    /\ pc = [p \in Procs |-> "idle"]
    /\ loc = [p \in Procs |-> NoLoc]
    /\ faults = 0
    /\ lockOf = [ch \in Channels |-> 0]
    /\ holder = [l \in LockIds |-> 0]
    /\ nlocks = 0
    /\ nuuid = 0
    /\ accepted = [s \in SessIds |-> 0]
    /\ InitPublisher
    /\ InitEdits
    /\ InitCooldowns

Goto(p, l) == pc' = [pc EXCEPT ![p] = l]

\* handlers are interchangeable: they are taken into use in order
MayStart(p) == pc[p] = "idle" /\ (IF p = 1 THEN TRUE ELSE pc[p - 1] # "idle")

Finished(p) == pc[p] \in {"ok", "err"}
AllDone == \A p \in Procs : pc[p] = "idle" \/ Finished(p)

\* ------------------------------------------- EconomyRepository.apply_transaction
StartApply(p) ==
    /\ MayStart(p)
    /\ \E u \in Users, dl \in Deltas :
          loc' = [loc EXCEPT ![p] = [NoLoc EXCEPT !.op = "apply", !.user = u, !.delta = dl]]
    /\ Goto(p, "ap_begin")
    /\ UNCHANGED <<connVars, faults, lockVars, nuuid, accepted, pubVars, editVars, cdVars>>

\* async with self._db.transaction(): await conn.execute("BEGIN;")
ApplyBegin(p) ==
    /\ pc[p] = "ap_begin"
    /\ \/ ConnBeginOk /\ Goto(p, "ap_ins_acct")
       \/ ConnBeginFails /\ Goto(p, "ap_rollback")
    /\ UNCHANGED <<loc, faults, lockVars, nuuid, accepted, pubVars, editVars, cdVars>>

ApplyInsertAccount(p) ==
    /\ pc[p] = "ap_ins_acct"
    /\ ConnWrite(InsertOrIgnoreAccount(db, loc[p].user))
    /\ Goto(p, "ap_ins_txn")
    /\ UNCHANGED <<loc, faults, lockVars, nuuid, accepted, pubVars, editVars, cdVars>>

ApplyInsertTransaction(p) ==
    /\ pc[p] = "ap_ins_txn"
    /\ ConnWrite(InsertTransaction(db, loc[p].user, loc[p].delta, p))
    /\ Goto(p, "ap_update")
    /\ UNCHANGED <<loc, faults, lockVars, nuuid, accepted, pubVars, editVars, cdVars>>

ApplyUpdateBalance(p) ==
    /\ pc[p] = "ap_update"
    /\ ConnWrite(UpdateBalance(db, loc[p].user, loc[p].delta))
    /\ loc' = [loc EXCEPT ![p].pre = BalanceOf(db, loc[p].user)]
    /\ Goto(p, "ap_select")
    /\ UNCHANGED <<faults, lockVars, nuuid, accepted, pubVars, editVars, cdVars>>

\* cur = await conn.execute("SELECT balance ..."); row = await cur.fetchone()
ApplySelect(p) ==
    /\ pc[p] = "ap_select"
    /\ loc' = [loc EXCEPT ![p].ret = BalanceOf(db, loc[p].user)]
    /\ Goto(p, "ap_commit")
    /\ UNCHANGED <<connVars, faults, lockVars, nuuid, accepted, pubVars, editVars, cdVars>>

\* a statement of the unit raises (I/O error, busy timeout, constraint)
ApplyStatementFails(p) ==
    /\ pc[p] \in {"ap_ins_acct", "ap_ins_txn", "ap_update"}
    /\ faults < MaxFaults
    /\ faults' = faults + 1
    /\ inTx' = TRUE
    /\ Goto(p, "ap_rollback")
    /\ UNCHANGED <<db, cdb, loc, lockVars, nuuid, accepted, pubVars, editVars, cdVars>>

\* else: await self.conn.commit(); the call returns the balance it read
ApplyCommit(p) ==
    /\ pc[p] = "ap_commit"
    /\ ConnCommit
    /\ Goto(p, IF loc[p].op = "msg" THEN "po_record"
                ELSE IF loc[p].op = "buy" THEN "b_add_begin"
                ELSE IF loc[p].op = "award" THEN "aw_schedule" ELSE "ok")
    /\ UNCHANGED <<loc, faults, lockVars, nuuid, accepted, pubVars, editVars, cdVars>>

\* an exception of the award that ends _finish_round
AfterPayoutError_Abort == "err"

\* except Exception as e: streak_lines.append("... (payout failed)"); the loop goes on
AfterPayoutError == "po_failed"

\* except Exception: await self.conn.rollback(); raise (to the caller of
\* apply_transaction: the ledger client, or the payout loop of _finish_round)
ApplyRollback(p) ==
    /\ pc[p] = "ap_rollback"
    /\ ConnRollback
    /\ Goto(p, IF loc[p].op = "msg" THEN AfterPayoutError ELSE "err")
    /\ UNCHANGED <<loc, faults, lockVars, nuuid, accepted, pubVars, editVars, cdVars>>

\* ------------------------------------------------ EconomyRepository.get_balance
StartGetBalance(p) ==
    /\ MayStart(p)
    /\ \E u \in Users :
          loc' = [loc EXCEPT ![p] = [NoLoc EXCEPT !.op = "get", !.user = u]]
    /\ Goto(p, "gb_select")
    /\ UNCHANGED <<connVars, faults, lockVars, nuuid, accepted, pubVars, editVars, cdVars>>

\* row = await self._db.fetchone("SELECT balance ...")
GetBalanceSelect(p) ==
    /\ pc[p] = "gb_select"
    /\ IF ~db.acct[loc[p].user].exists
         THEN /\ Goto(p, "gb_insert")
              /\ UNCHANGED loc
         ELSE /\ loc' = [loc EXCEPT ![p].ret = db.acct[loc[p].user].balance]
              /\ Goto(p, "ok")
    /\ UNCHANGED <<connVars, faults, lockVars, nuuid, accepted, pubVars, editVars, cdVars>>

\* Database.execute: await self.conn.execute("INSERT OR IGNORE ...")
GetBalanceInsert(p) ==
    /\ pc[p] = "gb_insert"
    /\ ConnWrite(InsertOrIgnoreAccount(db, loc[p].user))
    /\ Goto(p, "gb_commit")
    /\ UNCHANGED <<loc, faults, lockVars, nuuid, accepted, pubVars, editVars, cdVars>>

\* Database.execute: await self.conn.commit(); return 0
GetBalanceCommit(p) ==
    /\ pc[p] = "gb_commit"
    /\ ConnCommit
    /\ loc' = [loc EXCEPT ![p].ret = 0]
    /\ Goto(p, "ok")
    /\ UNCHANGED <<faults, lockVars, nuuid, accepted, pubVars, editVars, cdVars>>


\* ------------------------------------------------ key-scoped locks (asyncio.Lock)
\* a lookup that puts a new lock object into the dictionary on every call
GetChannelLock_AlwaysNew(ch) ==
    <<nlocks + 1, [lockOf EXCEPT ![ch] = nlocks + 1], nlocks + 1>>

\* WordChainGame._get_channel_lock: the lock object of the channel, created on
\* first use; <<lock object, lockOf after the lookup, nlocks after the lookup>>
GetChannelLock(ch) ==
    IF lockOf[ch] = 0
      THEN <<nlocks + 1, [lockOf EXCEPT ![ch] = nlocks + 1], nlocks + 1>>
      ELSE <<lockOf[ch], lockOf, nlocks>>

\* an acquire that does not wait for the holder
CanAcquire_NoWait(l) == TRUE

\* asyncio.Lock.acquire returns only while no other handler holds the lock
CanAcquire(l) == holder[l] = 0

\* handler p is inside `async with self._get_channel_lock(channel_id)`
MsgCritical == {"m_select", "m_up1", "m_up1c", "m_up2", "m_up2c", "f_end", "f_endc",
                "po_next", "po_record", "po_failed",
                "ap_begin", "ap_ins_acct", "ap_ins_txn", "ap_update", "ap_select",
                "ap_commit", "ap_rollback"}
InCritical(p, ch) == pc[p] \in MsgCritical /\ loc[p].chan = ch

\* __aexit__ of the channel lock held by p
ReleaseHeld(p) == holder' = [l \in LockIds |-> IF holder[l] = p THEN 0 ELSE holder[l]]

\* --------------------------- start_in_channel (Word Chain, Wordle) / stop_in_channel
\* /games wordchain_start, /games wordle_start, Play again button
StartRound(p) ==
    /\ MayStart(p)
    /\ \E g \in Games, ch \in Channels :
          loc' = [loc EXCEPT ![p] = [NoLoc EXCEPT !.op = "start", !.game = g, !.chan = ch]]
    /\ Goto(p, "e_begin")
    /\ UNCHANGED <<connVars, faults, lockVars, nuuid, accepted, pubVars, editVars, cdVars>>

\* WordChainGame.stop_in_channel
StopRound(p) ==
    /\ MayStart(p)
    /\ \E ch \in Channels :
          loc' = [loc EXCEPT ![p] = [NoLoc EXCEPT !.op = "stop", !.game = "word_chain", !.chan = ch]]
    /\ Goto(p, "e_begin")
    /\ UNCHANGED <<connVars, faults, lockVars, nuuid, accepted, pubVars, editVars, cdVars>>

\* end_active_in_location: async with self._db.transaction(): BEGIN
EndActiveBegin(p) ==
    /\ pc[p] = "e_begin"
    /\ \/ ConnBeginOk /\ Goto(p, "e_update")
       \/ ConnBeginFails /\ Goto(p, "e_rollback")
    /\ UNCHANGED <<loc, faults, lockVars, nuuid, accepted, pubVars, editVars, cdVars>>

\* end_active_in_location: UPDATE ... SET status = 'ended' WHERE scope AND active
EndActiveUpdate(p) ==
    /\ pc[p] = "e_update"
    /\ loc' = [loc EXCEPT ![p].ret = Cardinality(ActiveIn(db, loc[p].game, loc[p].chan))]
    /\ ConnWrite(EndActiveInLocation(db, loc[p].game, loc[p].chan))
    /\ Goto(p, "e_commit")
    /\ UNCHANGED <<faults, lockVars, nuuid, accepted, pubVars, editVars, cdVars>>

\* end_active_in_location: return cursor.rowcount, then commit on leaving the block
EndActiveCommit(p) ==
    /\ pc[p] = "e_commit"
    /\ ConnCommit
    /\ Goto(p, IF loc[p].op = "start" THEN "s_upsert" ELSE "ok")
    /\ UNCHANGED <<loc, faults, lockVars, nuuid, accepted, pubVars, editVars, cdVars>>

\* end_active_in_location: BEGIN raised; rollback and re-raise to the command
EndActiveRollback(p) ==
    /\ pc[p] = "e_rollback"
    /\ ConnRollback
    /\ Goto(p, "err")
    /\ UNCHANGED <<loc, faults, lockVars, nuuid, accepted, pubVars, editVars, cdVars>>

\* session id of the new round: str(uuid.uuid4()) for Word Chain,
\* f"{key}:{channel_id}:{date_str}" for Wordle
NewSessionId(g, ch) == IF g = "word_chain" THEN nuuid + 1 ELSE WordleSessionId(ch)

\* start_in_channel: upsert_active_session(new id, fresh state): execute
StartUpsert(p) ==
    /\ pc[p] = "s_upsert"
    /\ loc[p].game = "word_chain" => nuuid < MaxUuid
    /\ LET s == NewSessionId(loc[p].game, loc[p].chan) IN
          /\ loc' = [loc EXCEPT ![p].sid = s]
          /\ ConnWrite(UpsertActiveSession(db, s, loc[p].game, loc[p].chan, 0, NoStreaks))
    /\ nuuid' = IF loc[p].game = "word_chain" THEN nuuid + 1 ELSE nuuid
    /\ Goto(p, "s_commit")
    /\ UNCHANGED <<faults, lockVars, accepted, pubVars, editVars, cdVars>>

\* start_in_channel: the execute of upsert_active_session raises; start_in_channel
\* has no handler for it and the ending done before stays committed
StartUpsertFails(p) ==
    /\ pc[p] = "s_upsert"
    /\ faults < MaxFaults
    /\ faults' = faults + 1
    /\ Goto(p, "err")
    /\ UNCHANGED <<connVars, loc, lockVars, nuuid, accepted, pubVars, editVars, cdVars>>

\* the lock dictionary after self._channel_lock.setdefault(channel_id, asyncio.Lock())
SetDefaultLock(ch) ==
    IF lockOf[ch] = 0
      THEN <<[lockOf EXCEPT ![ch] = nlocks + 1], nlocks + 1>>
      ELSE <<lockOf, nlocks>>

\* start_in_channel: commit of the upsert; Word Chain then makes sure the
\* channel's locks exist (setdefault) and returns the session id
StartCommit(p) ==
    /\ pc[p] = "s_commit"
    /\ ConnCommit
    /\ IF loc[p].game = "word_chain"
         THEN /\ lockOf' = SetDefaultLock(loc[p].chan)[1]
              /\ nlocks' = SetDefaultLock(loc[p].chan)[2]
         ELSE UNCHANGED <<lockOf, nlocks>>
    /\ Goto(p, "ok")
    /\ UNCHANGED <<loc, faults, holder, nuuid, accepted, pubVars, editVars, cdVars>>

\* ------------------------------------------- WordChainGame.handle_discord_message
MessageArrivesIn(p, ch) ==
    /\ MayStart(p)
    /\ loc' = [loc EXCEPT ![p] = [NoLoc EXCEPT !.op = "msg", !.game = "word_chain", !.chan = ch]]
    /\ Goto(p, "m_lock")
    /\ UNCHANGED <<connVars, faults, lockVars, nuuid, accepted, pubVars, editVars, cdVars>>

MessageArrives(p) == \E ch \in Channels : MessageArrivesIn(p, ch)

\* async with self._get_channel_lock(channel_id): look the lock up, wait for it
MessageLock(p) ==
    /\ pc[p] = "m_lock"
    /\ LET got == GetChannelLock(loc[p].chan) IN
          /\ CanAcquire(got[1])
          /\ holder' = [holder EXCEPT ![got[1]] = p]
          /\ lockOf' = got[2]
          /\ nlocks' = got[3]
    /\ Goto(p, "m_select")
    /\ UNCHANGED <<connVars, loc, faults, nuuid, accepted, pubVars, editVars, cdVars>>

\* sess = get_active_session(...); no session: return False.  Otherwise the word
\* is checked against the state read: a mistake ends the round, a valid word
\* is played (turn + 1)
MessageSelect(p) ==
    /\ pc[p] = "m_select"
    /\ LET act == ActiveIn(db, "word_chain", loc[p].chan) IN
         IF act = {}
           THEN /\ ReleaseHeld(p)
                /\ Goto(p, "ok")
                /\ UNCHANGED <<loc, accepted>>
           ELSE \E s \in act, valid \in BOOLEAN, author \in Users :
                  IF valid
                    THEN /\ loc' = [loc EXCEPT ![p].sid = s, ![p].turn = db.sess[s].turn + 1,
                                               ![p].streaks = [db.sess[s].streaks EXCEPT ![author] = @ + 1]]
                         /\ accepted' = [accepted EXCEPT ![s] = @ + 1]
                         /\ Goto(p, "m_up1")
                         /\ UNCHANGED holder
                    ELSE /\ loc' = [loc EXCEPT ![p].sid = s, ![p].turn = db.sess[s].turn,
                                               ![p].streaks = db.sess[s].streaks]
                         /\ Goto(p, "f_end")
                         /\ UNCHANGED <<holder, accepted>>
    /\ UNCHANGED <<connVars, faults, lockOf, nlocks, nuuid, pubVars, editVars, cdVars>>

\* valid play: upsert_active_session(sess.id, state): execute
MessageUpsert(p) ==
    /\ pc[p] \in {"m_up1", "m_up2"}
    /\ ConnWrite(UpsertActiveSession(db, loc[p].sid, "word_chain", loc[p].chan,
                                     loc[p].turn, loc[p].streaks))
    /\ Goto(p, IF pc[p] = "m_up1" THEN "m_up1c" ELSE "m_up2c")
    /\ UNCHANGED <<loc, faults, lockVars, nuuid, accepted, pubVars, editVars, cdVars>>

\* valid play: commit of the first upsert; status embed and milestone follow
MessageUpsertCommit(p) ==
    /\ pc[p] = "m_up1c"
    /\ ConnCommit
    /\ Goto(p, "m_up2")
    /\ UNCHANGED <<loc, faults, lockVars, nuuid, accepted, pubVars, editVars, cdVars>>

\* commit of the second upsert ("persist milestone update"); return True
MessageDone(p) ==
    /\ pc[p] = "m_up2c"
    /\ ConnCommit
    /\ ReleaseHeld(p)
    /\ Goto(p, "ok")
    /\ UNCHANGED <<loc, faults, lockOf, nlocks, nuuid, accepted, pubVars, editVars, cdVars>>

\* _finish_round: end_session(session_id=sess_id): execute
FinishRoundEnd(p) ==
    /\ pc[p] = "f_end"
    /\ ConnWrite(EndSession(db, loc[p].sid))
    /\ Goto(p, "f_endc")
    /\ UNCHANGED <<loc, faults, lockVars, nuuid, accepted, pubVars, editVars, cdVars>>

\* _finish_round: commit of end_session; the payout loop over the players with
\* a positive streak follows
FinishRoundDone(p) ==
    /\ pc[p] = "f_endc"
    /\ ConnCommit
    /\ loc' = [loc EXCEPT ![p].todo = {u \in Users : loc[p].streaks[u] > 0}]
    /\ Goto(p, "po_next")
    /\ UNCHANGED <<faults, lockVars, nuuid, accepted, pubVars, editVars, cdVars>>

\* sorted(streaks.items(), key=streak, reverse=True): the players with the longest streak
\* still to be paid
NextToPay(p) == {u \in loc[p].todo : \A v \in loc[p].todo : loc[p].streaks[v] <= loc[p].streaks[u]}

\* payout loop: next player: beans = max(0, per_unit * streak);
\* award_beans_discord -> apply_transaction.  After the last player the summary
\* is sent and the handler returns True, leaving the channel lock.
PayoutNext(p) ==
    /\ pc[p] = "po_next"
    /\ IF loc[p].todo = {}
         THEN /\ ReleaseHeld(p)
              /\ Goto(p, "ok")
              /\ UNCHANGED loc
         ELSE /\ \E u \in NextToPay(p) :
                    loc' = [loc EXCEPT ![p].user = u, ![p].delta = PerUnit * loc[p].streaks[u],
                                       ![p].todo = loc[p].todo \ {u}]
              /\ Goto(p, "ap_begin")
              /\ UNCHANGED holder
    /\ UNCHANGED <<connVars, faults, lockOf, nlocks, nuuid, accepted, pubVars, editVars, cdVars>>

\* record_game_result; streak_lines.append("<@id> - N beans (streak S)")
PayoutRecord(p) ==
    /\ pc[p] = "po_record"
    /\ loc' = [loc EXCEPT ![p].report[loc[p].user] = "paid"]
    /\ Goto(p, "po_next")
    /\ UNCHANGED <<connVars, faults, lockVars, nuuid, accepted, pubVars, editVars, cdVars>>

\* except Exception: streak_lines.append("<@id> - N (payout failed)")
PayoutFailed(p) ==
    /\ pc[p] = "po_failed"
    /\ loc' = [loc EXCEPT ![p].report[loc[p].user] = "failed"]
    /\ Goto(p, "po_next")
    /\ UNCHANGED <<connVars, faults, lockVars, nuuid, accepted, pubVars, editVars, cdVars>>


\* ------------------------------------------------------- LeaderboardPublisher
\* an acquire of the publisher's lock that does not wait for the holder
PubCanAcquire_NoWait == TRUE

\* self._lock (asyncio.Lock) can be acquired only while no task holds it
PubCanAcquire == pubLock = 0

\* positions inside `async with self._lock` of refresh_now
RefreshCritical == {"r_embed", "r_getid", "r_edit", "r_send", "r_save", "r_savec"}
Refreshing(t) == ptask[t].pc \in RefreshCritical

TaskGoto(t, l) == ptask' = [ptask EXCEPT ![t].pc = l]

\* a runner that keeps the deadline of the timer it replaces
RunnerWake_KeepsDeadline ==
    IF pending # 0 /\ ptask[pending].pc = "sleep" THEN ptask[pending].wake ELSE now + DebounceTicks

\* delay = float(self._config.debounce_seconds); await asyncio.sleep(delay)
RunnerWake == now + DebounceTicks

\* a schedule_refresh that leaves the previous pending task alone
CancelPending_Never(task) == task

\* if self._pending_task and not self._pending_task.done(): self._pending_task.cancel()
CancelPending(task) == IF task.pc # "done" THEN [task EXCEPT !.cancel = TRUE] ELSE task

\* schedule_refresh(): cancel the pending task unless it is done, then create a
\* runner task that sleeps debounce_seconds and calls refresh_now
DoScheduleRefresh ==
    /\ ntasks < MaxTasks
    /\ LET t == ntasks + 1
           runner == [NoTask EXCEPT !.kind = "timer", !.pc = "sleep", !.at = now, !.wake = RunnerWake]
       IN /\ ptask' = [u \in Tasks |->
                         IF u = t THEN runner
                         ELSE IF u = pending THEN CancelPending(ptask[u])
                                ELSE ptask[u]]
          /\ pending' = t
          /\ ntasks' = t
    /\ UNCHANGED <<pubLock, now, posted>>

\* a change of the ledger somewhere in the bot calls schedule_refresh()
ScheduleRefresh ==
    /\ DoScheduleRefresh
    /\ UNCHANGED <<connVars, faults, handlerVars, editVars, cdVars>>

\* /leaderboard: await publisher.refresh_now(default_tab="today")
RefreshCommand ==
    /\ ntasks < MaxTasks
    /\ ptask' = [ptask EXCEPT ![ntasks + 1] =
                    [NoTask EXCEPT !.kind = "direct", !.pc = "r_lock", !.start = now]]
    /\ ntasks' = ntasks + 1
    /\ UNCHANGED <<connVars, faults, handlerVars, editVars, pending, pubLock, now, posted, cdVars>>

\* a sleep that returns although the task was cancelled
SleepReturns_DespiteCancel(t) == ptask[t].pc = "sleep" /\ ptask[t].wake <= now

\* await asyncio.sleep(delay) returns normally: the delay has passed and no
\* cancellation was requested before the task is resumed
SleepReturns(t) == ptask[t].pc = "sleep" /\ ~ptask[t].cancel /\ ptask[t].wake <= now

\* runner: await asyncio.sleep(delay) returns; refresh_now is called
TimerFires(t) ==
    /\ SleepReturns(t)
    /\ ptask' = [ptask EXCEPT ![t].pc = "r_lock", ![t].start = now]
    /\ UNCHANGED <<connVars, faults, handlerVars, editVars, ntasks, pending, pubLock, now, posted, cdVars>>

\* time passes; a timer that is due fires before the clock moves on
Tick ==
    /\ now < MaxTime
    /\ \A t \in Tasks : ~SleepReturns(t)
    /\ now' = now + 1
    /\ UNCHANGED <<connVars, faults, handlerVars, editVars, ptask, ntasks, pending, pubLock, posted, cdVars>>

\* refresh_now: async with self._lock
RefreshLock(t) ==
    /\ ptask[t].pc = "r_lock"
    /\ ~ptask[t].cancel
    /\ PubCanAcquire
    /\ pubLock' = t
    /\ TaskGoto(t, "r_embed")
    /\ UNCHANGED <<connVars, faults, handlerVars, editVars, ntasks, pending, now, posted, cdVars>>

\* refresh_now: embed = await self.build_embed(tab=default_tab)
RefreshBuildEmbed(t) ==
    /\ ptask[t].pc = "r_embed"
    /\ ~ptask[t].cancel
    /\ TaskGoto(t, "r_getid")
    /\ UNCHANGED <<connVars, faults, handlerVars, editVars, ntasks, pending, pubLock, now, posted, cdVars>>

\* a lookup under a board key that has no row
GetMessageId_None == EmptyDb.post

\* LeaderboardPostsRepository.get_message_id: SELECT message_id FROM
\* leaderboard_posts WHERE <board>; 0: None
GetMessageId == db.post

\* _upsert_single_message: msg_id = await self._posts_repo.get_message_id(...)
RefreshGetMessageId(t) ==
    /\ ptask[t].pc = "r_getid"
    /\ ~ptask[t].cancel
    /\ ptask' = [ptask EXCEPT ![t].msg = GetMessageId,
                              ![t].pc = IF GetMessageId # 0 THEN "r_edit" ELSE "r_send"]
    /\ UNCHANGED <<connVars, faults, handlerVars, editVars, ntasks, pending, pubLock, now, posted, cdVars>>

\* _upsert_single_message: fetch_message + edit succeed; return msg.id
RefreshEdit(t) ==
    /\ ptask[t].pc = "r_edit"
    /\ ~ptask[t].cancel
    /\ ptask' = [ptask EXCEPT ![t].pc = "done", ![t].out = "ok"]
    /\ pubLock' = 0
    /\ UNCHANGED <<connVars, faults, handlerVars, editVars, ntasks, pending, now, posted, cdVars>>

\* _upsert_single_message: the stored message cannot be edited (NotFound,
\* Forbidden, HTTPException): fall through to recreate
RefreshEditFails(t) ==
    /\ ptask[t].pc = "r_edit"
    /\ ~ptask[t].cancel
    /\ faults < MaxFaults
    /\ faults' = faults + 1
    /\ TaskGoto(t, "r_send")
    /\ UNCHANGED <<connVars, handlerVars, editVars, ntasks, pending, pubLock, now, posted, cdVars>>

\* _upsert_single_message: sent = await channel.send(embed=embed, view=view)
RefreshSend(t) ==
    /\ ptask[t].pc = "r_send"
    /\ ~ptask[t].cancel
    /\ posted' = posted + 1
    /\ ptask' = [ptask EXCEPT ![t].msg = posted + 1, ![t].pc = "r_save", ![t].sent = TRUE]
    /\ UNCHANGED <<connVars, faults, handlerVars, editVars, ntasks, pending, pubLock, now, cdVars>>

\* upsert_message_id: Database.execute: execute
RefreshSave(t) ==
    /\ ptask[t].pc = "r_save"
    /\ ~ptask[t].cancel
    /\ ConnWrite([db EXCEPT !.post = ptask[t].msg])
    /\ TaskGoto(t, "r_savec")
    /\ UNCHANGED <<faults, handlerVars, editVars, ntasks, pending, pubLock, now, posted, cdVars>>

\* upsert_message_id: Database.execute: commit; refresh_now leaves the lock
RefreshSaveCommit(t) ==
    /\ ptask[t].pc = "r_savec"
    /\ ~ptask[t].cancel
    /\ ConnCommit
    /\ ptask' = [ptask EXCEPT ![t].pc = "done", ![t].out = "ok", ![t].saved = TRUE]
    /\ pubLock' = 0
    /\ UNCHANGED <<faults, handlerVars, editVars, ntasks, pending, now, posted, cdVars>>

\* positions of refresh_now at which an awaited call can raise: the queries of
\* build_embed, get_message_id, channel.send (not inside the try of the edit),
\* and the execute of upsert_message_id
RaisingPcs == {"r_embed", "r_getid", "r_send", "r_save"}

\* an exception that leaves refresh_now with the lock still held
LockAfterException_StillHeld(t) == pubLock

\* __aexit__ of `async with self._lock` when an exception passes through it
LockAfterException(t) == IF pubLock = t THEN 0 ELSE pubLock

\* refresh_now has no try/except: the exception leaves `async with self._lock`
\* (releasing it) and reaches the caller.  runner() catches it and logs
\* "debounced refresh crashed"; CoreCommands.leaderboard does not catch it.
RefreshRaises(t) ==
    /\ ptask[t].pc \in RaisingPcs
    /\ ~ptask[t].cancel
    /\ faults < MaxFaults
    /\ faults' = faults + 1
    /\ ptask' = [ptask EXCEPT ![t].pc = "done",
                              ![t].out = IF ptask[t].kind = "timer" THEN "logged" ELSE "raised"]
    /\ pubLock' = LockAfterException(t)
    /\ UNCHANGED <<connVars, handlerVars, editVars, ntasks, pending, now, posted, cdVars>>

\* the CancelledError of Task.cancel() is raised at the await the task is
\* suspended in; `async with` releases the lock; the runner returns
CancelDelivered(t) ==
    /\ ptask[t].cancel
    /\ ptask[t].pc # "done"
    /\ ptask' = [ptask EXCEPT ![t].pc = "done", ![t].out = "cancelled"]
    /\ pubLock' = IF pubLock = t THEN 0 ELSE pubLock
    /\ UNCHANGED <<connVars, faults, handlerVars, editVars, ntasks, pending, now, posted, cdVars>>

\* -------------------------------------------------------- specifications
NextLedger ==
    \E p \in Procs :
        \/ StartApply(p)
        \/ ApplyBegin(p)
        \/ ApplyInsertAccount(p)
        \/ ApplyInsertTransaction(p)
        \/ ApplyUpdateBalance(p)
        \/ ApplySelect(p)
        \/ ApplyStatementFails(p)
        \/ ApplyCommit(p)
        \/ ApplyRollback(p)
        \/ StartGetBalance(p)
        \/ GetBalanceSelect(p)
        \/ GetBalanceInsert(p)
        \/ GetBalanceCommit(p)

SpecLedger == Init /\ [][NextLedger]_vars


NextGames ==
    \E p \in Procs :
        \/ StartRound(p)
        \/ StopRound(p)
        \/ EndActiveBegin(p)
        \/ EndActiveUpdate(p)
        \/ EndActiveCommit(p)
        \/ EndActiveRollback(p)
        \/ StartUpsert(p)
        \/ StartUpsertFails(p)
        \/ StartCommit(p)
        \/ MessageArrives(p)
        \/ MessageLock(p)
        \/ MessageSelect(p)
        \/ MessageUpsert(p)
        \/ MessageUpsertCommit(p)
        \/ MessageDone(p)
        \/ FinishRoundEnd(p)
        \/ FinishRoundDone(p)
        \/ PayoutNext(p)
        \/ ApplyBegin(p)
        \/ ApplyInsertAccount(p)
        \/ ApplyInsertTransaction(p)
        \/ ApplyUpdateBalance(p)
        \/ ApplySelect(p)
        \/ ApplyStatementFails(p)
        \/ ApplyCommit(p)
        \/ ApplyRollback(p)
        \/ PayoutRecord(p)
        \/ PayoutFailed(p)

SpecGames == Init /\ [][NextGames]_vars

\* A Word Chain round is running in channel 1 (the state a completed
\* /games wordchain_start leaves) and handlers serve messages of that channel.
ChainChannel == CHOOSE ch \in Channels : \A c \in Channels : ch <= c
ChainDb == [EmptyDb EXCEPT !.sess[1] = [exists |-> TRUE, platform |-> "discord",
                                         thread |-> NoThread, game |-> "word_chain",
                                         chan |-> ChainChannel, status |-> "active", turn |-> 0,
                                         streaks |-> NoStreaks]]
InitChain ==
    /\ inTx = FALSE
    /\ db = ChainDb
    /\ cdb = ChainDb
    /\ pc = [p \in Procs |-> "idle"]
    /\ loc = [p \in Procs |-> NoLoc]
    /\ faults = 0
    /\ lockOf = [ch \in Channels |-> IF ch = ChainChannel THEN 1 ELSE 0]
    /\ holder = [l \in LockIds |-> 0]
    /\ nlocks = 1
    /\ nuuid = 1
    /\ accepted = [s \in SessIds |-> 0]
    /\ InitPublisher
    /\ InitEdits
    /\ InitCooldowns

NextChain ==
    \E p \in Procs :
        \/ MessageArrivesIn(p, ChainChannel)
        \/ MessageLock(p)
        \/ MessageSelect(p)
        \/ MessageUpsert(p)
        \/ MessageUpsertCommit(p)
        \/ MessageDone(p)
        \/ FinishRoundEnd(p)
        \/ FinishRoundDone(p)
        \/ PayoutNext(p)
        \/ ApplyBegin(p)
        \/ ApplyInsertAccount(p)
        \/ ApplyInsertTransaction(p)
        \/ ApplyUpdateBalance(p)
        \/ ApplySelect(p)
        \/ ApplyStatementFails(p)
        \/ ApplyCommit(p)
        \/ ApplyRollback(p)
        \/ PayoutRecord(p)
        \/ PayoutFailed(p)

SpecChain == InitChain /\ [][NextChain]_vars

\* ---------------------------------------- GamesRepository, called concurrently
\* Each handler makes one repository call; the calls share the connection.
\* A call that has returned leaves nothing behind in its handler's locals.
\* the callers use two session ids
RepoIds == {1, 2}
\* values of the opaque state column: the state of a new round, a later state
FreshState == 0
RepoStates == {FreshState, 1}
OtherChannel == CHOOSE ch \in Channels : ch # ChainChannel
BaseScope == [platform |-> "discord", chan |-> ChainChannel, thread |-> NoThread,
              game |-> "word_chain"]
\* a scope and the scopes that differ from it in one column
RepoScopes == {BaseScope,
               [BaseScope EXCEPT !.platform = "telegram"],
               [BaseScope EXCEPT !.chan = OtherChannel],
               [BaseScope EXCEPT !.thread = "t1"],
               [BaseScope EXCEPT !.thread = "t2"],
               [BaseScope EXCEPT !.game = "wordle"]}

\* scopes asked for by get_active_session and end_active_in_location:
\* one without a thread and one with a thread
RequestScopes == {BaseScope, [BaseScope EXCEPT !.thread = "t1"]}

ScopeOfRow(r) == [platform |-> r.platform, chan |-> r.chan, thread |-> r.thread,
                  game |-> r.game]
ScopeOfCall(l) == [platform |-> l.platform, chan |-> l.chan, thread |-> l.thread,
                   game |-> l.game]
CallIn(op, sc) == [NoLoc EXCEPT !.op = op, !.platform = sc.platform, !.chan = sc.chan,
                                !.thread = sc.thread, !.game = sc.game]

\* calls whose statement has run and whose commit is still to come
InFlightPcs == {"ru_commit", "re_commit", "rs_commit"}

\* locals after handler p has run a statement that changed the table to newdb
AfterWrite(p, l, newdb) ==
    [q \in Procs |->
        IF q = p THEN l
        ELSE IF pc[q] \in InFlightPcs /\ newdb # db THEN [loc[q] EXCEPT !.raced = TRUE]
        ELSE loc[q]]

\* upsert_active_session: Database.execute: await self.conn.execute(INSERT ...)
\* (callers derive the id from the scope or draw a fresh uuid: an id is never
\* used with two scopes, and a session is created with the state of a new round)
RepoUpsertExecute(p) ==
    /\ MayStart(p)
    /\ \E s \in RepoIds, sc \in RepoScopes, st \in RepoStates :
          /\ db.sess[s].exists => ScopeOfRow(db.sess[s]) = sc
          /\ ~db.sess[s].exists => st = FreshState
          /\ LET newdb == UpsertRow(db, s, sc.platform, sc.chan, sc.thread, sc.game,
                                    st, NoStreaks) IN
                /\ ConnWrite(newdb)
                /\ loc' = AfterWrite(p, [CallIn("upsert", sc) EXCEPT !.sid = s, !.turn = st],
                                     newdb)
    /\ Goto(p, "ru_commit")
    /\ UNCHANGED <<faults, lockVars, nuuid, accepted, pubVars, editVars, cdVars>>

\* upsert_active_session: Database.execute: await self.conn.commit()
RepoUpsertCommit(p) ==
    /\ pc[p] = "ru_commit"
    /\ ConnCommit
    /\ Goto(p, "ok")
    /\ loc' = [loc EXCEPT ![p] = NoLoc]
    /\ UNCHANGED <<faults, lockVars, nuuid, accepted, pubVars, editVars, cdVars>>

\* end_session: Database.execute: await self.conn.execute(UPDATE ... WHERE id = ?)
RepoEndExecute(p) ==
    /\ MayStart(p)
    /\ \E s \in RepoIds :
          LET newdb == EndSession(db, s) IN
            /\ ConnWrite(newdb)
            /\ loc' = AfterWrite(p, [NoLoc EXCEPT !.op = "end", !.sid = s], newdb)
    /\ Goto(p, "re_commit")
    /\ UNCHANGED <<faults, lockVars, nuuid, accepted, pubVars, editVars, cdVars>>

\* end_session: Database.execute: await self.conn.commit()
RepoEndCommit(p) ==
    /\ pc[p] = "re_commit"
    /\ ConnCommit
    /\ Goto(p, "ok")
    /\ loc' = [loc EXCEPT ![p] = NoLoc]
    /\ UNCHANGED <<faults, lockVars, nuuid, accepted, pubVars, editVars, cdVars>>

\* end_active_in_location: async with self._db.transaction(): BEGIN
RepoEndActiveBegin(p) ==
    /\ MayStart(p)
    /\ \E sc \in RequestScopes : loc' = [loc EXCEPT ![p] = CallIn("endactive", sc)]
    /\ \/ ConnBeginOk /\ Goto(p, "rs_update")
       \/ ConnBeginFails /\ Goto(p, "rs_rollback")
    /\ UNCHANGED <<faults, lockVars, nuuid, accepted, pubVars, editVars, cdVars>>

\* end_active_in_location: UPDATE ... WHERE <scope> AND status = 'active';
\* cursor.rowcount is the number of rows the UPDATE matched
RepoEndActiveUpdate(p) ==
    /\ pc[p] = "rs_update"
    /\ LET l == loc[p]
           newdb == EndActiveInScope(db, l.platform, l.chan, l.thread, l.game) IN
          /\ ConnWrite(newdb)
          /\ loc' = AfterWrite(p, [l EXCEPT !.ret = Cardinality(
                         ActiveInScope(db, l.platform, l.chan, l.thread, l.game))], newdb)
    /\ Goto(p, "rs_commit")
    /\ UNCHANGED <<faults, lockVars, nuuid, accepted, pubVars, editVars, cdVars>>

\* end_active_in_location: return cursor.rowcount; the block commits
RepoEndActiveCommit(p) ==
    /\ pc[p] = "rs_commit"
    /\ ConnCommit
    /\ Goto(p, "ok")
    /\ loc' = [loc EXCEPT ![p] = NoLoc]
    /\ UNCHANGED <<faults, lockVars, nuuid, accepted, pubVars, editVars, cdVars>>

\* end_active_in_location: BEGIN raised; rollback and re-raise
RepoEndActiveRollback(p) ==
    /\ pc[p] = "rs_rollback"
    /\ ConnRollback
    /\ Goto(p, "err")
    /\ loc' = [loc EXCEPT ![p] = NoLoc]
    /\ UNCHANGED <<faults, lockVars, nuuid, accepted, pubVars, editVars, cdVars>>

\* get_active_session: SELECT ... LIMIT 1 (no ORDER BY: any matching row);
\* sid 0: the call returns None
RepoGetActive(p) ==
    /\ MayStart(p)
    /\ \E sc \in RequestScopes :
          LET act == ActiveInScope(db, sc.platform, sc.chan, sc.thread, sc.game) IN
            IF act = {}
              THEN loc' = [loc EXCEPT ![p] = CallIn("get", sc)]
              ELSE \E s \in act :
                     loc' = [loc EXCEPT ![p] = [CallIn("get", sc) EXCEPT
                                                   !.sid = s, !.turn = db.sess[s].turn]]
    /\ Goto(p, "rg_return")
    /\ UNCHANGED <<connVars, faults, lockVars, nuuid, accepted, pubVars, editVars, cdVars>>

\* get_active_session: return None / return ActiveGameSession(...)
RepoGetReturn(p) ==
    /\ pc[p] = "rg_return"
    /\ loc' = [loc EXCEPT ![p] = NoLoc]
    /\ Goto(p, "ok")
    /\ UNCHANGED <<connVars, faults, lockVars, nuuid, accepted, pubVars, editVars, cdVars>>

NextSessions ==
    \E p \in Procs :
        \/ RepoUpsertExecute(p)
        \/ RepoUpsertCommit(p)
        \/ RepoEndExecute(p)
        \/ RepoEndCommit(p)
        \/ RepoEndActiveBegin(p)
        \/ RepoEndActiveUpdate(p)
        \/ RepoEndActiveCommit(p)
        \/ RepoEndActiveRollback(p)
        \/ RepoGetActive(p)
        \/ RepoGetReturn(p)

SpecSessions == Init /\ [][NextSessions]_vars

\* ------------------------------------ throttled status edits
\* WordChainGame._edit_status_embed (key: channel), WordleGame._edit_player_status_message
\* and GeoLanguageGame._edit_panel (key: channel and player): the same steps.
\* A key is modelled by a channel; the status message exists. A call that has
\* returned leaves nothing behind in its handler's locals.

\* the callers compete for the status message of one channel
EditKeys == {ChainChannel}

\* not force and (now - last) < window, with last = dict.get(key, 0.0)
TooRecent(k, force) == ~force /\ lastEdit[k] >= 0 /\ now - lastEdit[k] < ThrottleTicks

\* a handler that edits as soon as it holds the lock
TooRecentUnderLock_NotChecked(k, force) == FALSE

\* now2 = time.time(); last2 = dict.get(key, 0.0); not force and (now2 - last2) < window
TooRecentUnderLock(k, force) == TooRecent(k, force)

\* the call, up to the first check (no lock held)
EditPreCheck(p) ==
    /\ MayStart(p)
    /\ \E k \in EditKeys, force \in BOOLEAN :
          IF TooRecent(k, force)
            THEN UNCHANGED loc /\ Goto(p, "ok")
            ELSE /\ loc' = [loc EXCEPT ![p] = [NoLoc EXCEPT !.op = "edit", !.chan = k,
                                                   !.force = force, !.checked = now]]
                 /\ Goto(p, "ed_lock")
    /\ UNCHANGED <<connVars, faults, lockVars, nuuid, accepted, pubVars, editVars, cdVars>>

\* async with lock: the second check, made right after the lock is acquired
EditLockAndRecheck(p) ==
    /\ pc[p] = "ed_lock"
    /\ editLock[loc[p].chan] = 0
    /\ IF TooRecentUnderLock(loc[p].chan, loc[p].force)
         THEN /\ Goto(p, "ok")
              /\ loc' = [loc EXCEPT ![p] = NoLoc]
              /\ UNCHANGED editLock
         ELSE /\ Goto(p, "ed_fetch")
              /\ editLock' = [editLock EXCEPT ![loc[p].chan] = p]
              /\ UNCHANGED loc
    /\ UNCHANGED <<connVars, faults, lockVars, nuuid, accepted, pubVars, lastEdit, edits, cdVars>>

\* status_msg = await channel.fetch_message(int(msg_id))
EditFetch(p) ==
    /\ pc[p] = "ed_fetch"
    /\ Goto(p, "ed_edit")
    /\ UNCHANGED <<connVars, loc, faults, lockVars, nuuid, accepted, pubVars, editVars, cdVars>>

\* await status_msg.edit(embed=embed): Discord performs the edit
EditSend(p) ==
    /\ pc[p] = "ed_edit"
    /\ edits' = IF loc[p].force THEN edits
                ELSE [edits EXCEPT ![loc[p].chan] = Append(@, now)]
    /\ Goto(p, "ed_stamp")
    /\ UNCHANGED <<connVars, loc, faults, lockVars, nuuid, accepted, pubVars, lastEdit, editLock, cdVars>>

\* self._last_status_edit_at[channel_id] = time.time(); the lock is released
EditStamp(p) ==
    /\ pc[p] = "ed_stamp"
    /\ lastEdit' = [lastEdit EXCEPT ![loc[p].chan] = now]
    /\ editLock' = [editLock EXCEPT ![loc[p].chan] = 0]
    /\ loc' = [loc EXCEPT ![p] = NoLoc]
    /\ Goto(p, "ok")
    /\ UNCHANGED <<connVars, faults, lockVars, nuuid, accepted, pubVars, edits, cdVars>>

\* except (discord.NotFound, discord.Forbidden, discord.HTTPException): return
EditFails(p) ==
    /\ pc[p] \in {"ed_fetch", "ed_edit"}
    /\ faults < MaxFaults
    /\ faults' = faults + 1
    /\ editLock' = [editLock EXCEPT ![loc[p].chan] = 0]
    /\ loc' = [loc EXCEPT ![p] = NoLoc]
    /\ Goto(p, "ok")
    /\ UNCHANGED <<connVars, lockVars, nuuid, accepted, pubVars, lastEdit, edits, cdVars>>

NextThrottle ==
    \/ Tick
    \/ \E p \in Procs :
        \/ EditPreCheck(p)
        \/ EditLockAndRecheck(p)
        \/ EditFetch(p)
        \/ EditSend(p)
        \/ EditStamp(p)
        \/ EditFails(p)

SpecThrottle == Init /\ [][NextThrottle]_vars


NextPublisher ==
    \/ ScheduleRefresh
    \/ RefreshCommand
    \/ Tick
    \/ \E t \in Tasks :
        \/ TimerFires(t)
        \/ RefreshLock(t)
        \/ RefreshBuildEmbed(t)
        \/ RefreshGetMessageId(t)
        \/ RefreshEdit(t)
        \/ RefreshEditFails(t)
        \/ RefreshSend(t)
        \/ RefreshSave(t)
        \/ RefreshSaveCommit(t)
        \/ RefreshRaises(t)
        \/ CancelDelivered(t)

SpecPublisher == Init /\ [][NextPublisher]_vars

\* The event loop runs every task that is ready, the clock advances, and
\* asyncio.Lock hands the lock to its waiters in FIFO order, so a waiter is not
\* overtaken for ever.  Calls of schedule_refresh, of the admin command, and
\* failures are left to the environment.
\* the next step of task t when the call it awaits returns or its cancellation arrives
TaskStep(t) ==
    \/ TimerFires(t)
    \/ RefreshBuildEmbed(t)
    \/ RefreshGetMessageId(t)
    \/ RefreshEdit(t)
    \/ RefreshSend(t)
    \/ RefreshSave(t)
    \/ RefreshSaveCommit(t)
    \/ CancelDelivered(t)

FairPublisher ==
    /\ WF_vars(Tick)
    /\ \A t \in Tasks : WF_vars(TaskStep(t)) /\ SF_vars(RefreshLock(t))

SpecPublisherFair == Init /\ [][NextPublisher]_vars /\ FairPublisher

\* ------------------------------------------------------------ ledger claims
\* ApplyTransaction calls on account u that returned normally to their caller
OkApplies(u) == {p \in Procs : loc[p].op = "apply" /\ pc[p] = "ok" /\ loc[p].user = u}
FailedApplies == {p \in Procs : loc[p].op = "apply" /\ pc[p] = "err"}

RECURSIVE SumOfCalls(_)
SumOfCalls(S) == IF S = {} THEN 0
                 ELSE LET p == CHOOSE x \in S : TRUE IN loc[p].delta + SumOfCalls(S \ {p})

\* C1: in every reachable state the committed balance of every account equals
\* the sum of the deltas of that account's committed transaction rows.
C1_BalanceIsSumOfDeltas ==
    \A u \in Users : BalanceOf(cdb, u) = SumDeltas(cdb.txn, u)

\* C2: once all ApplyTransaction calls have completed, the balance of every
\* account equals its starting balance (0) plus the deltas of the calls on it
\* that returned to their callers (no lost update).
C2_NoLostUpdate ==
    AllDone => \A u \in Users : BalanceOf(cdb, u) = SumOfCalls(OkApplies(u))

\* C3: a failed ApplyTransaction call leaves none of its writes committed:
\* no committed transaction row was written by a call that raised.
C3_FailedCallCommitsNothing ==
    \A p \in FailedApplies : \A i \in 1..Len(cdb.txn) : cdb.txn[i].call # p

\* C4: every ApplyTransaction call that completes has appended exactly one
\* transaction row: after k calls on an account complete, it has k rows.
C4_OneRowPerCompletedCall ==
    AllDone => \A u \in Users : Cardinality(RowsOf(cdb.txn, u)) = Cardinality(OkApplies(u))

\* ----------------------------------------------------------- session claims
Scopes == Games \X Channels

\* C5: in every reachable state every scope has at most one active session.
C5_AtMostOneActivePerScope ==
    \A sc \in Scopes : Cardinality(ActiveIn(cdb, sc[1], sc[2])) <= 1

\* C6: ENDED is terminal: a session id whose committed status is ended never
\* has status active in a later state.
C6_EndedIsTerminal ==
    [][\A s \in SessIds : cdb.sess[s].status = "ended" => cdb'.sess[s].status # "active"]_vars

\* positions at which a handler issues a write to active_game_sessions
SessionWritePcs == {"e_update", "s_upsert", "m_up1", "m_up2", "f_end"}
HoldsChannelLock(p) == lockOf[loc[p].chan] # 0 /\ holder[lockOf[loc[p].chan]] = p

\* C7: every write to a session's state or status is issued while the issuing
\* handler holds the lock of the session's channel.
C7_SessionWritesUnderLock ==
    \A p \in Procs : pc[p] \in SessionWritePcs => HoldsChannelLock(p)


\* ------------------------------------------------------------- lock claims
MutualExclusion ==
    \A ch \in Channels : \A p, q \in Procs :
        (InCritical(p, ch) /\ InCritical(q, ch)) => p = q

SameLockForever ==
    \A ch \in Channels : lockOf[ch] # 0 => lockOf'[ch] = lockOf[ch]

\* C8: the lock object of a key, once created, is never replaced, and at most
\* one handler at a time is inside the critical section guarded by a key.
C8_OneMutexPerKey == [](MutualExclusion) /\ [][SameLockForever]_vars

\* one handler inside the critical section of a channel, a second one waiting
\* for that channel's lock, a third inside the critical section of another channel
C8_Witness ==
    \E p, q, r \in Procs : \E ch, ch2 \in Channels :
        /\ ch # ch2
        /\ InCritical(p, ch)
        /\ pc[q] = "m_lock" /\ loc[q].chan = ch
        /\ InCritical(r, ch2)

\* C9: when the handlers have finished, the persisted turn of every session
\* equals the number of words accepted for it: no increment was lost.
C9_NoLostIncrement ==
    AllDone => \A s \in SessIds : cdb.sess[s].exists => cdb.sess[s].turn = accepted[s]

\* several handlers of one channel each accepted a word for the same session
C9_Witness ==
    /\ AllDone
    /\ \E s \in SessIds : accepted[s] >= 2 /\ cdb.sess[s].turn = accepted[s]


\* -------------------------------------------------------- publisher claims
\* C10: at most one execution of refresh_now is in progress at any time.
C10_OneRefreshAtATime ==
    \A t, u \in Tasks : (Refreshing(t) /\ Refreshing(u)) => t = u

\* a timer-fired refresh is in progress while a direct refresh waits for the lock
C10_Witness ==
    \E t, u \in Tasks :
        /\ ptask[t].kind = "timer" /\ Refreshing(t)
        /\ ptask[u].kind = "direct" /\ ptask[u].pc = "r_lock"

\* ---------------------------------------------------------- debounce claims
TimerTasks == {t \in Tasks : ptask[t].kind = "timer"}
Started(t) == ptask[t].start # -1
\* u is the runner created by the schedule_refresh call following the one of t
NextSignal(t, u) ==
    /\ t \in TimerTasks /\ u \in TimerTasks /\ t < u
    /\ \A v \in TimerTasks : ~(t < v /\ v < u)
LastSignal(t) == t \in TimerTasks /\ \A v \in TimerTasks : v <= t
\* every schedule_refresh call so far came less than debounce_seconds after the previous one
IsBurst == \A t, u \in Tasks : NextSignal(t, u) => ptask[u].at - ptask[t].at < DebounceTicks

\* C11: a burst of schedule_refresh calls, each less than debounce_seconds after
\* the previous one, produces exactly one refresh_now execution: only the runner
\* of the last call enters refresh_now, and it does so debounce_seconds after
\* the last call.
C11_BurstRefreshesOnceAfterLast ==
    IsBurst =>
        \A t \in TimerTasks :
            /\ Started(t) => (LastSignal(t) /\ ptask[t].start = ptask[t].at + DebounceTicks)
            /\ (LastSignal(t) /\ now > ptask[t].at + DebounceTicks) => Started(t)

\* two calls at different times form a burst; the runner of the first was
\* cancelled and the runner of the second entered refresh_now, later than
\* debounce_seconds after the first call
C11_Witness ==
    /\ IsBurst
    /\ \E t, u \in Tasks :
          /\ NextSignal(t, u) /\ LastSignal(u)
          /\ ptask[t].at < ptask[u].at
          /\ ~Started(t) /\ ptask[t].pc = "done"
          /\ Started(u) /\ ptask[u].start > ptask[t].at + DebounceTicks

\* a debounce timer that has not fired and has not been cancelled
PendingTimer(t) == ptask[t].kind = "timer" /\ ptask[t].pc = "sleep" /\ ~ptask[t].cancel

\* C12: at any time at most one debounce timer is pending; it is the one of the
\* most recent schedule_refresh call and it runs for debounce_seconds from that call.
C12_OnePendingTimer ==
    /\ Cardinality({t \in Tasks : PendingTimer(t)}) <= 1
    /\ \A t \in Tasks :
          PendingTimer(t) => (t = pending /\ ptask[t].wake = ptask[t].at + DebounceTicks)

\* a second schedule_refresh has cancelled the still sleeping timer of the
\* first and started its own
C12_Witness ==
    \E t, u \in Tasks :
        /\ NextSignal(t, u)
        /\ ptask[t].pc = "sleep" /\ ptask[t].cancel
        /\ PendingTimer(u)

\* C13: a refresh_now execution that a fired timer has started is never
\* interrupted by a later schedule_refresh: it is not ended by a cancellation,
\* and its message send and its persisted message id are both done or both not done.
C13_StartedRefreshNotCancelled ==
    \A t \in Tasks :
        (Started(t) /\ ptask[t].pc = "done") =>
            /\ ptask[t].out # "cancelled"
            /\ ptask[t].out = "cancelled" => (ptask[t].sent <=> ptask[t].saved)

\* C14: an exception raised inside refresh_now never reaches the caller of
\* refresh_now, whether a fired timer or the admin command invoked it.
C14_RefreshExceptionNotPropagated ==
    \A t \in Tasks : ptask[t].out # "raised"

\* a refresh_now execution has ended with an exception
Failed(t) == ptask[t].out \in {"logged", "raised"}

\* C15: after a refresh_now execution has failed with an exception the scheduler
\* is not stuck: the lock is held only by a task that is inside refresh_now, and
\* a timer pending after the failure fires debounce_seconds after its call and
\* gets to execute refresh_now (unless a later schedule_refresh supersedes it).
C15_NotStuckAfterFailure ==
    /\ [](pubLock # 0 => Refreshing(pubLock))
    /\ [](\A u \in TimerTasks : Started(u) => ptask[u].start = ptask[u].at + DebounceTicks)
    /\ \A u \in Tasks :
          ((\E t \in Tasks : Failed(t)) /\ PendingTimer(u) /\ ptask[u].wake <= MaxTime)
              ~> (ptask[u].cancel \/ Refreshing(u))

\* the runner of one call failed inside refresh_now; the next schedule_refresh
\* came after that failure and its runner has executed refresh_now to the end
C15_Witness ==
    \E t, u \in Tasks :
        /\ NextSignal(t, u)
        /\ Failed(t) /\ ~ptask[t].cancel
        /\ ptask[u].out = "ok" /\ ptask[u].start = ptask[u].at + DebounceTicks

\* the refresh_now executions that can show the change signalled by the call of
\* runner t: those entered by a task created by that call or later
ServedBy(t) == {u \in Tasks : u >= t /\ Started(u)}

\* C16: propagation has bounded latency: once more than debounce_seconds have
\* passed since a schedule_refresh call, a refresh_now execution covering that
\* call has begun, also when further calls keep arriving less than
\* debounce_seconds apart.
C16_BoundedLatency ==
    \A t \in TimerTasks : now > ptask[t].at + DebounceTicks => ServedBy(t) # {}

\* C17: a timer superseded by a later schedule_refresh before it fired never
\* executes refresh_now: from its sleep a cancelled runner can only end as
\* cancelled, without having entered refresh_now.
C17_SupersededTimerNeverRuns ==
    [][\A t \in Tasks :
          (ptask[t].pc = "sleep" /\ ptask[t].cancel) =>
              \/ ptask'[t] = ptask[t]
              \/ ptask'[t].pc = "done" /\ ptask'[t].out = "cancelled" /\ ptask'[t].start = -1]_vars

\* the deadline of a timer had passed when the next schedule_refresh cancelled
\* it, before its runner was resumed; the runner ended without entering refresh_now
C17_Witness ==
    \E t, u \in Tasks :
        /\ NextSignal(t, u)
        /\ ptask[u].at >= ptask[t].wake
        /\ ptask[t].pc = "done" /\ ptask[t].out = "cancelled" /\ ~Started(t)

\* ------------------------------------------------------- hard reset claims
\* handler p runs start_in_channel, its end_active_in_location has ended at
\* least one session, and the new session is not created: the upsert is still
\* to come, or it has failed
ResetHalfDone(p) ==
    /\ loc[p].op = "start" /\ loc[p].ret > 0
    /\ pc[p] \in {"s_upsert", "err"}

\* C18: the hard reset of a round start is all-or-nothing: the committed store
\* never shows the scope with the old session ended and the new one not
\* created, neither while the start is in progress nor after its upsert failed.
C18_HardResetAllOrNothing ==
    \A p \in Procs :
        ResetHalfDone(p) => ActiveIn(cdb, loc[p].game, loc[p].chan) # {}

\* ------------------------------------------------------------ payout claims
\* the payout of handler p has reported "payout failed" for some player
PayoutFailedFor(p, u) == loc[p].op = "msg" /\ loc[p].report[u] = "failed"

CommittedRowsOf(d, p) == {i \in 1..Len(d.txn) : d.txn[i].call = p}

\* C20: every exit from Database.transaction() settles the unit: when the block
\* of apply_transaction is left normally its statements are committed, when it
\* is left by an exception none of them is committed, and in both cases no
\* transaction is left open on the connection.
C20_ExitSettlesUnit ==
    [][\A p \in Procs :
          /\ (pc[p] = "ap_commit" /\ pc'[p] # "ap_commit") =>
                (~inTx' /\ Cardinality(CommittedRowsOf(cdb', p)) = 1)
          /\ (pc[p] = "ap_rollback" /\ pc'[p] # "ap_rollback") =>
                (~inTx' /\ CommittedRowsOf(cdb', p) = {})]_vars

\* ------------------------------------------------- further ledger claims
CallStarted(p) == pc[p] # "idle"
\* the handlers started so far are apply_transaction calls on pairwise different accounts
AppliesOnDifferentAccounts ==
    \A p \in Procs : CallStarted(p) =>
        /\ loc[p].op = "apply"
        /\ \A q \in Procs : (CallStarted(q) /\ q # p) => loc[q].user # loc[p].user

\* C21: apply_transaction calls on different accounts do not make each other
\* fail: without a store error every one of them completes, and each account
\* ends with exactly the delta of its own call.
C21_DifferentAccountsIndependent ==
    (faults = 0 /\ AppliesOnDifferentAccounts) =>
        /\ FailedApplies = {}
        /\ AllDone => \A u \in Users : BalanceOf(cdb, u) = SumOfCalls(OkApplies(u))

\* C22: apply_transaction returns the balance that results from its own
\* update: the balance its UPDATE found plus delta, also when other
\* apply_transaction calls on the same account interleave.
C22_ReturnsOwnResult ==
    \A p \in Procs :
        (loc[p].op = "apply" /\ pc[p] \in {"ap_commit", "ok"}) =>
            loc[p].ret = loc[p].pre + loc[p].delta

GetBalanceStep(p) == GetBalanceSelect(p) \/ GetBalanceInsert(p) \/ GetBalanceCommit(p)

\* C23: get_balance on an account without a row creates the row with balance
\* 0 and returns 0, and the row is in the store when the call has returned;
\* no step of get_balance appends a transaction row or changes an existing
\* account row.
C23_GetBalanceCreatesRow ==
    [][\A p \in Procs :
          /\ GetBalanceStep(p) =>
                /\ db'.txn = db.txn
                /\ \A u \in Users : db.acct[u].exists => db'.acct[u] = db.acct[u]
          /\ GetBalanceInsert(p) =>
                (~db.acct[loc[p].user].exists =>
                     db'.acct[loc[p].user] = [exists |-> TRUE, balance |-> 0])
          /\ GetBalanceCommit(p) =>
                /\ loc'[p].ret = 0
                /\ cdb'.acct[loc[p].user].exists]_vars

IsPrefix(s, t) == Len(s) <= Len(t) /\ SubSeq(t, 1, Len(s)) = s

\* C24: the transaction log is append-only: in every step the committed rows
\* of bean_transactions stay as they are, and rows are only added after them.
C24_LogAppendOnly == [][IsPrefix(cdb.txn, cdb'.txn)]_vars

\* two rows were committed one after the other and a call has been rolled back
C24_Witness ==
    /\ Len(cdb.txn) >= 2
    /\ \E p \in Procs : pc[p] = "err"

\* ------------------------------------------------- session store claims
\* the row an upsert of handler p's arguments leaves for its id
RowOfCall(l) == [exists |-> TRUE, platform |-> l.platform, thread |-> l.thread,
                 game |-> l.game, chan |-> l.chan, status |-> "active",
                 turn |-> l.turn, streaks |-> NoStreaks]

\* C25: when upsert_active_session has returned and no other caller wrote to
\* the table after its statement, the store has the row of that id with status
\* active and the state of this call; running the statement again with the
\* same arguments changes nothing.
C25_UpsertLeavesRowOfLatestCall ==
    [][\A p \in Procs :
          /\ (RepoUpsertCommit(p) /\ ~loc[p].raced) =>
                cdb'.sess[loc[p].sid] = RowOfCall(loc[p])
          /\ RepoUpsertExecute(p) =>
                LET l == loc'[p] IN
                  UpsertRow(db', l.sid, l.platform, l.chan, l.thread, l.game, l.turn,
                            NoStreaks) = db']_vars

\* C26: get_active_session returns None on a scope without an active session;
\* after upsert_active_session has returned the session is an active session of
\* its scope with the state passed, and after end_session has returned it is no
\* active session any more (no other caller having written in between).
C26_GetActiveFollowsUpsertAndEnd ==
    [][\A p \in Procs :
          /\ RepoGetActive(p) =>
                LET l == loc'[p] IN
                  (ActiveInScope(db, l.platform, l.chan, l.thread, l.game) = {}) = (l.sid = 0)
          /\ (RepoUpsertCommit(p) /\ ~loc[p].raced) =>
                LET l == loc[p] IN
                  /\ loc[p].sid \in ActiveInScope(cdb', l.platform, l.chan, l.thread, l.game)
                  /\ cdb'.sess[l.sid].turn = l.turn
          /\ (RepoEndCommit(p) /\ ~loc[p].raced) =>
                cdb'.sess[loc[p].sid].status # "active"]_vars

\* C27: a session returned by get_active_session is active, has the platform,
\* location and game requested, has no thread when none was requested, and has
\* the requested thread otherwise.
C27_GetActiveMatchesScope ==
    [][\A p \in Procs :
          RepoGetActive(p) =>
            LET l == loc'[p] IN
              l.sid # 0 =>
                /\ db.sess[l.sid].exists
                /\ db.sess[l.sid].status = "active"
                /\ db.sess[l.sid].platform = l.platform
                /\ db.sess[l.sid].chan = l.chan
                /\ db.sess[l.sid].game = l.game
                /\ (l.thread = NoThread) = (db.sess[l.sid].thread = NoThread)
                /\ l.thread # NoThread => db.sess[l.sid].thread = l.thread]_vars

\* two active sessions differ in the thread only, one without a thread, and a
\* request has returned one of them
C27_Witness ==
    \E p \in Procs, s \in RepoIds :
        /\ loc[p].op = "get" /\ loc[p].sid \notin {0, s}
        /\ db.sess[s].exists /\ db.sess[s].status = "active"
        /\ db.sess[loc[p].sid].exists /\ db.sess[loc[p].sid].status = "active"
        /\ db.sess[s].thread # db.sess[loc[p].sid].thread
        /\ NoThread \in {db.sess[s].thread, db.sess[loc[p].sid].thread}
        /\ [ScopeOfRow(db.sess[s]) EXCEPT !.thread = NoThread] = BaseScope

\* C28: the statement of end_session sets the status of the row with the given
\* id and changes nothing else: every other row and the state of every row stay
\* as they are, a missing id changes nothing, and the commit adds no change.
C28_EndChangesOneStatus ==
    [][\A p \in Procs :
          /\ RepoEndExecute(p) =>
                LET s == loc'[p].sid IN
                  /\ \A x \in SessIds \ {s} : db'.sess[x] = db.sess[x]
                  /\ db.sess[s].exists => db'.sess[s] = [db.sess[s] EXCEPT !.status = "ended"]
                  /\ ~db.sess[s].exists => db'.sess[s] = db.sess[s]
                  /\ db'.acct = db.acct /\ db'.txn = db.txn
          /\ RepoEndCommit(p) => db' = db]_vars

\* the statement of end_session has ended a committed active session while
\* another session of the same location is active
C28_Witness ==
    \E p \in Procs, s \in RepoIds :
        /\ loc[p].op = "end" /\ loc[p].sid # s /\ pc[p] = "re_commit"
        /\ cdb.sess[loc[p].sid].status = "active" /\ db.sess[loc[p].sid].status = "ended"
        /\ db.sess[s].exists /\ db.sess[s].status = "active"
        /\ db.sess[s].chan = db.sess[loc[p].sid].chan

\* C29: the UPDATE of end_active_in_location ends every active session of the
\* scope and no other row, the call returns the number of rows it ended (0 and
\* no change when there was none), and when the call has returned, no other
\* caller having written in between, the scope has no active session.
C29_EndActiveEndsScope ==
    [][\A p \in Procs :
          /\ RepoEndActiveUpdate(p) =>
                LET l == loc[p]
                    act == ActiveInScope(db, l.platform, l.chan, l.thread, l.game) IN
                  /\ loc'[p].ret = Cardinality(act)
                  /\ \A s \in act : db'.sess[s] = [db.sess[s] EXCEPT !.status = "ended"]
                  /\ \A s \in SessIds \ act : db'.sess[s] = db.sess[s]
          /\ (RepoEndActiveCommit(p) /\ ~loc[p].raced) =>
                LET l == loc[p] IN
                  ActiveInScope(cdb', l.platform, l.chan, l.thread, l.game) = {}]_vars

\* ------------------------------------------------- throttle claim
Passed(p) == loc[p].op = "edit" /\ loc[p].checked >= 0

C31_RefreshEditsStoredMessage ==
    [][(db.post # 0 /\ posted' # posted) =>
          \E t \in Tasks : /\ RefreshSend(t)
                           /\ ptask[t].msg = db.post]_vars

\* one refresh has posted the message and stored its id, a later refresh has
\* edited it, and there is one message
C31_Witness ==
    \E t \in Tasks, u \in Tasks :
        /\ t # u
        /\ ptask[t].saved
        /\ ptask[u].pc = "done" /\ ptask[u].out = "ok" /\ ~ptask[u].sent
        /\ ptask[u].msg = cdb.post
        /\ posted = 1

\* ------------------------------------------------- further ledger claims
\* C32: the UPDATE of apply_transaction adds delta to the account's balance
\* in full, also when the result is negative, and the read-back returns the
\* balance as it is.
C32_BalanceNotClamped ==
    [][\A p \in Procs :
          /\ (ApplyUpdateBalance(p) /\ db.acct[loc[p].user].exists) =>
                db'.acct[loc[p].user].balance =
                    db.acct[loc[p].user].balance + loc[p].delta
          /\ ApplySelect(p) => loc'[p].ret = BalanceOf(db, loc[p].user)]_vars

\* a call with a negative delta larger than the balance has returned the
\* negative balance, and the negative balance is committed
C32_Witness ==
    \E p \in Procs :
        /\ loc[p].op = "apply" /\ pc[p] = "ok"
        /\ loc[p].delta < 0 /\ loc[p].pre + loc[p].delta < 0
        /\ loc[p].ret = loc[p].pre + loc[p].delta
        /\ BalanceOf(cdb, loc[p].user) = loc[p].ret

\* ------------------------------------------------- isolation of atomic units
\* the transaction row of handler p's unit is among the rows of d
HasRowOf(d, p) == \E i \in 1..Len(d.txn) : d.txn[i].call = p

\* handler p is inside its unit, has inserted its transaction row and has not
\* yet updated the balance
UnitHalfWritten(p) ==
    /\ loc[p].op = "apply" /\ pc[p] = "ap_update"
    /\ HasRowOf(db, p) /\ ~HasRowOf(cdb, p)

\* C33: while a handler is between the BEGIN and the commit of its unit, no
\* rollback of another handler removes a write of the unit, and no commit of
\* another handler makes a part of the unit's writes durable.
C33_UnitsIsolated ==
    [][\A p \in Procs, q \in Procs :
          (p # q /\ UnitHalfWritten(p)) =>
              /\ ApplyRollback(q) => HasRowOf(db', p)
              /\ (ApplyCommit(q) \/ GetBalanceCommit(q)) => ~HasRowOf(cdb', p)]_vars


\* ------------------------------------------------- a round pays out at most once
\* A Word Chain round is running in channel 1 and player 1 has played one valid
\* word (the state a completed valid play leaves: turn 1, streak 1).
RoundDb == [ChainDb EXCEPT !.sess[1].turn = 1,
                           !.sess[1].streaks = [NoStreaks EXCEPT ![1] = 1]]
InitRound ==
    /\ inTx = FALSE
    /\ db = RoundDb
    /\ cdb = RoundDb
    /\ pc = [p \in Procs |-> "idle"]
    /\ loc = [p \in Procs |-> NoLoc]
    /\ faults = 0
    /\ lockOf = [ch \in Channels |-> IF ch = ChainChannel THEN 1 ELSE 0]
    /\ holder = [l \in LockIds |-> 0]
    /\ nlocks = 1
    /\ nuuid = 1
    /\ accepted = [s \in SessIds |-> IF s = 1 THEN 1 ELSE 0]
    /\ InitPublisher
    /\ InitEdits
    /\ InitCooldowns

\* handlers serve messages of the channel while other handlers (a command, a
\* game of another channel) call apply_transaction on the same Database
NextRound ==
    \E p \in Procs :
        \/ MessageArrivesIn(p, ChainChannel)
        \/ StartApply(p)
        \/ MessageLock(p)
        \/ MessageSelect(p)
        \/ MessageUpsert(p)
        \/ MessageUpsertCommit(p)
        \/ MessageDone(p)
        \/ FinishRoundEnd(p)
        \/ FinishRoundDone(p)
        \/ PayoutNext(p)
        \/ ApplyBegin(p)
        \/ ApplyInsertAccount(p)
        \/ ApplyInsertTransaction(p)
        \/ ApplyUpdateBalance(p)
        \/ ApplySelect(p)
        \/ ApplyStatementFails(p)
        \/ ApplyCommit(p)
        \/ ApplyRollback(p)
        \/ PayoutRecord(p)
        \/ PayoutFailed(p)

SpecRound == InitRound /\ [][NextRound]_vars

\* handler p ran the payout loop of session s and paid player u
PaidBy(p, s, u) ==
    /\ loc[p].op = "msg" /\ loc[p].sid = s
    /\ loc[p].report[u] = "paid"

\* C34: a round pays out at most once: no two handlers run the Word Chain payout
\* of one session id, so no player is paid twice for the same session.
C34_RoundPaysOnce ==
    \A s \in SessIds, u \in Users, p \in Procs, q \in Procs :
        (PaidBy(p, s, u) /\ PaidBy(q, s, u)) => p = q


\* ------------------------------------------------- lock order of the handlers
\* handle_discord_message of a game: the channel lock, and inside it the status
\* edits, each of which takes the edit lock of the key.  The statements between
\* the lock operations (repository calls, payout) take no lock and are left out.
\* The handlers serve one channel, so that they compete for the same two locks.
LockArrive(p) ==
    /\ MayStart(p)
    /\ \E ch \in EditKeys :
          loc' = [loc EXCEPT ![p] = [NoLoc EXCEPT !.op = "locks", !.chan = ch]]
    /\ Goto(p, "lk_chan")
    /\ UNCHANGED <<connVars, faults, lockVars, nuuid, accepted, pubVars, editVars, cdVars>>

\* async with self._get_channel_lock(channel_id)
LockChannel(p) ==
    /\ pc[p] = "lk_chan"
    /\ LET got == GetChannelLock(loc[p].chan) IN
          /\ CanAcquire(got[1])
          /\ holder' = [holder EXCEPT ![got[1]] = p]
          /\ lockOf' = got[2]
          /\ nlocks' = got[3]
    /\ Goto(p, "lk_body")
    /\ UNCHANGED <<connVars, loc, faults, nuuid, accepted, pubVars, editVars, cdVars>>

\* the calls of _edit_status_embed from inside the channel lock, each up to its
\* first check.  A valid play makes the throttled edit (force=False) and then,
\* at a milestone, a forced one; a mistake makes the forced edit of _finish_round.
\* loc.turn: 0 before the first edit call, 1 after the edit of a valid play,
\* 2 when no edit call is left.
LockEditCall(p) ==
    /\ pc[p] = "lk_body"
    /\ \E force \in BOOLEAN :
          /\ \/ loc[p].turn = 0
             \/ loc[p].turn = 1 /\ force
          /\ loc' = [loc EXCEPT ![p].turn = IF force THEN 2 ELSE 1, ![p].force = force]
          /\ Goto(p, IF TooRecent(loc[p].chan, force) THEN "lk_body" ELSE "lk_edit")
    /\ UNCHANGED <<connVars, faults, lockVars, nuuid, accepted, pubVars, editVars, cdVars>>

\* async with lock: the edit lock of the key, then the second check
LockEdit(p) ==
    /\ pc[p] = "lk_edit"
    /\ editLock[loc[p].chan] = 0
    /\ IF TooRecentUnderLock(loc[p].chan, loc[p].force)
         THEN Goto(p, "lk_body") /\ UNCHANGED editLock
         ELSE /\ Goto(p, "lk_fetch")
              /\ editLock' = [editLock EXCEPT ![loc[p].chan] = p]
    /\ UNCHANGED <<connVars, loc, faults, lockVars, nuuid, accepted, pubVars, lastEdit, edits, cdVars>>

\* status_msg = await channel.fetch_message(int(msg_id))
LockEditFetch(p) ==
    /\ pc[p] = "lk_fetch"
    /\ Goto(p, "lk_send")
    /\ UNCHANGED <<connVars, loc, faults, lockVars, nuuid, accepted, pubVars, editVars, cdVars>>

\* await status_msg.edit(embed=embed); the stamp; the edit lock is left
LockEditSend(p) ==
    /\ pc[p] = "lk_send"
    /\ lastEdit' = [lastEdit EXCEPT ![loc[p].chan] = now]
    /\ editLock' = [editLock EXCEPT ![loc[p].chan] = 0]
    /\ Goto(p, "lk_body")
    /\ UNCHANGED <<connVars, loc, faults, lockVars, nuuid, accepted, pubVars, edits, cdVars>>

\* an edit lock that stays with the handler whose edit failed
EditLockAfterFailure_StillHeld(p) == p

\* except (discord.NotFound, discord.Forbidden, discord.HTTPException): return,
\* from inside `async with lock`: the edit lock is free again
EditLockAfterFailure(p) == 0

LockEditFails(p) ==
    /\ pc[p] \in {"lk_fetch", "lk_send"}
    /\ faults < MaxFaults
    /\ faults' = faults + 1
    /\ editLock' = [editLock EXCEPT ![loc[p].chan] = EditLockAfterFailure(p)]
    /\ Goto(p, "lk_body")
    /\ UNCHANGED <<connVars, loc, lockVars, nuuid, accepted, pubVars, lastEdit, edits, cdVars>>

\* the handler returns: __aexit__ of the channel lock
LockExit(p) ==
    /\ pc[p] = "lk_body"
    /\ loc[p].turn >= 1
    /\ ReleaseHeld(p)
    /\ Goto(p, "ok")
    /\ UNCHANGED <<connVars, loc, faults, lockOf, nlocks, nuuid, accepted, pubVars, editVars, cdVars>>

NextLocks ==
    \/ Tick
    \/ \E p \in Procs :
        \/ LockArrive(p)
        \/ LockChannel(p)
        \/ LockEditCall(p)
        \/ LockEdit(p)
        \/ LockEditFetch(p)
        \/ LockEditSend(p)
        \/ LockEditFails(p)
        \/ LockExit(p)

\* Discord answers every request, so a handler that holds a lock goes on; an
\* asyncio.Lock wakes its waiters in FIFO order, so a waiter is not overtaken
\* for ever.  Arrivals and failures are left to the environment.
FairLocks ==
    \A p \in Procs :
        /\ WF_vars(LockEditCall(p) \/ LockEditFetch(p) \/ LockEditSend(p) \/ LockExit(p))
        /\ SF_vars(LockChannel(p))
        /\ SF_vars(LockEdit(p))

SpecLocks == Init /\ [][NextLocks]_vars /\ FairLocks

\* handler p holds the lock object of a channel / the edit lock of a key
HoldsSomeChannelLock(p) == \E l \in LockIds : holder[l] = p
HoldsEditLock(p, k) == editLock[k] = p

\* a handler waiting for a channel lock holds no lock at all, and a handler
\* waiting for an edit lock does not hold that edit lock
LockOrder ==
    \A p \in Procs :
        /\ pc[p] = "lk_chan" => (~HoldsSomeChannelLock(p) /\ \A k \in Channels : ~HoldsEditLock(p, k))
        /\ pc[p] = "lk_edit" => ~HoldsEditLock(p, loc[p].chan)

\* C35: lock acquisition never deadlocks: no handler waits for a channel lock
\* while it holds an edit lock or waits for a lock it holds itself, and every
\* handler that waits for a lock eventually gets it.
C35_LocksNeverDeadlock ==
    /\ []LockOrder
    /\ \A p \in Procs :
          /\ (pc[p] = "lk_chan") ~> (pc[p] = "lk_body")
          /\ (pc[p] = "lk_edit") ~> (pc[p] \in {"lk_fetch", "lk_body"})

\* a handler waits for the channel lock of a handler that is inside the edit lock
C35_Witness ==
    \E p \in Procs, q \in Procs :
        /\ pc[p] = "lk_chan" /\ pc[q] = "lk_fetch"
        /\ loc[p].chan = loc[q].chan
        /\ HoldsEditLock(q, loc[q].chan)
        /\ holder[lockOf[loc[q].chan]] = q


\* ------------------------------------------------------ ShopService.buy_discord
\* total_cost = price * qty_to_add of the purchases the handlers try; each
\* purchase adds one item (qty_to_add = 1)
Costs == {3, 5}

\* the call up to the sufficiency check: item, user and quantity are read (the
\* stack is not full), then balance = get_balance_discord(...)
StartBuy(p) ==
    /\ MayStart(p)
    /\ \E u \in Users, c \in Costs :
          loc' = [loc EXCEPT ![p] = [NoLoc EXCEPT !.op = "buy", !.user = u, !.delta = 0 - c]]
    /\ Goto(p, "b_balance")
    /\ UNCHANGED <<connVars, faults, lockVars, nuuid, accepted, pubVars, editVars, cdVars>>

\* get_balance: SELECT balance (no row: INSERT OR IGNORE, commit, 0);
\* if balance < total_cost: return "Not enough beans"; otherwise
\* award_beans_discord(amount=-total_cost) -> apply_transaction.
\* loc.checked: the balance the check read
BuyCheck(p) ==
    /\ pc[p] = "b_balance"
    /\ IF ~db.acct[loc[p].user].exists
         THEN Goto(p, "gb_insert") /\ UNCHANGED loc
         ELSE /\ loc' = [loc EXCEPT ![p].checked = db.acct[loc[p].user].balance]
              /\ Goto(p, IF db.acct[loc[p].user].balance < 0 - loc[p].delta
                           THEN "ok" ELSE "ap_begin")
    /\ UNCHANGED <<connVars, faults, lockVars, nuuid, accepted, pubVars, editVars, cdVars>>

\* add_quantity: async with self._db.transaction(): BEGIN
BuyAddBegin(p) ==
    /\ pc[p] = "b_add_begin"
    /\ \/ ConnBeginOk /\ Goto(p, "b_add_ins")
       \/ ConnBeginFails /\ Goto(p, "b_add_rollback")
    /\ UNCHANGED <<loc, faults, lockVars, nuuid, accepted, pubVars, editVars, cdVars>>

\* INSERT OR IGNORE INTO shop_inventory (..., quantity) VALUES (..., 0)
BuyAddInsert(p) ==
    /\ pc[p] = "b_add_ins"
    /\ ConnWrite(db)
    /\ Goto(p, "b_add_upd")
    /\ UNCHANGED <<loc, faults, lockVars, nuuid, accepted, pubVars, editVars, cdVars>>

\* UPDATE shop_inventory SET quantity = quantity + ?
AddQuantity(d, u, n) == [d EXCEPT !.inv[u] = @ + n]

BuyAddUpdate(p) ==
    /\ pc[p] = "b_add_upd"
    /\ ConnWrite(AddQuantity(db, loc[p].user, 1))
    /\ Goto(p, "b_add_commit")
    /\ UNCHANGED <<loc, faults, lockVars, nuuid, accepted, pubVars, editVars, cdVars>>

\* SELECT quantity; commit; buy_discord returns ShopResult(True, ...)
BuyAddCommit(p) ==
    /\ pc[p] = "b_add_commit"
    /\ ConnCommit
    /\ Goto(p, "ok")
    /\ UNCHANGED <<loc, faults, lockVars, nuuid, accepted, pubVars, editVars, cdVars>>

\* a statement of add_quantity raises
BuyAddFails(p) ==
    /\ pc[p] \in {"b_add_ins", "b_add_upd"}
    /\ faults < MaxFaults
    /\ faults' = faults + 1
    /\ inTx' = TRUE
    /\ Goto(p, "b_add_rollback")
    /\ UNCHANGED <<db, cdb, loc, lockVars, nuuid, accepted, pubVars, editVars, cdVars>>

\* except Exception: rollback; raise (out of buy_discord)
BuyAddRollback(p) ==
    /\ pc[p] = "b_add_rollback"
    /\ ConnRollback
    /\ Goto(p, "err")
    /\ UNCHANGED <<loc, faults, lockVars, nuuid, accepted, pubVars, editVars, cdVars>>

\* purchases, next to the awards that fill the accounts
NextShop ==
    \E p \in Procs :
        \/ StartApply(p)
        \/ StartBuy(p)
        \/ BuyCheck(p)
        \/ GetBalanceInsert(p)
        \/ GetBalanceCommit(p)
        \/ ApplyBegin(p)
        \/ ApplyInsertAccount(p)
        \/ ApplyInsertTransaction(p)
        \/ ApplyUpdateBalance(p)
        \/ ApplySelect(p)
        \/ ApplyStatementFails(p)
        \/ ApplyCommit(p)
        \/ ApplyRollback(p)
        \/ BuyAddBegin(p)
        \/ BuyAddInsert(p)
        \/ BuyAddUpdate(p)
        \/ BuyAddCommit(p)
        \/ BuyAddFails(p)
        \/ BuyAddRollback(p)

SpecShop == Init /\ [][NextShop]_vars

\* C36: a shop purchase never drives the balance below zero: the debit of a
\* purchase leaves a balance that was non-negative non-negative.
C36_PurchaseKeepsBalanceNonNegative ==
    [][\A p \in Procs :
          (ApplyUpdateBalance(p) /\ loc[p].op = "buy" /\ BalanceOf(db, loc[p].user) >= 0)
              => BalanceOf(db', loc[p].user) >= 0]_vars


\* the purchases of user u whose debit is committed
DebitedPurchases(u) ==
    {p \in Procs : loc[p].op = "buy" /\ loc[p].user = u /\ HasRowOf(cdb, p)}

\* C37: a shop purchase is all-or-nothing across ledger and inventory: once the
\* calls have returned or failed, the committed inventory of a user holds one
\* item for every purchase whose debit is committed, and no other.
C37_PurchaseAllOrNothing ==
    AllDone => \A u \in Users : cdb.inv[u] = Cardinality(DebitedPurchases(u))


\* ------------------------------------ UsersRepository.get_or_create_discord_user
\* db.users: the rows of the users table in rowid order; did: discord_user_id,
\* acct: the bean account created for the row.  Discord ids are drawn from Users.

\* the rows of d whose discord_user_id is did
UserRows(d, did) == {i \in 1..Len(d.users) : d.users[i].did = did}

StartGetOrCreate(p) ==
    /\ MayStart(p)
    /\ \E did \in Users :
          loc' = [loc EXCEPT ![p] = [NoLoc EXCEPT !.op = "user", !.user = did]]
    /\ Goto(p, "gu_select")
    /\ UNCHANGED <<connVars, faults, lockVars, nuuid, accepted, pubVars, editVars, cdVars>>

\* get_by_discord_id: SELECT ... FROM users WHERE discord_user_id = ?; fetchone
\* returns the first row
GetByDiscordId(d, did) ==
    IF UserRows(d, did) = {} THEN {}
    ELSE {CHOOSE i \in UserRows(d, did) : \A j \in UserRows(d, did) : i <= j}

\* user = await self.get_by_discord_id(...); if user: return user
GetOrCreateSelect(p) ==
    /\ pc[p] = "gu_select"
    /\ LET found == GetByDiscordId(db, loc[p].user) IN
         IF found = {}
           THEN Goto(p, "gu_begin") /\ UNCHANGED loc
           ELSE /\ \E i \in found : loc' = [loc EXCEPT ![p].ret = i]
                /\ Goto(p, "ok")
    /\ UNCHANGED <<connVars, faults, lockVars, nuuid, accepted, pubVars, editVars, cdVars>>

\* create_discord_user: async with self._db.transaction(): BEGIN
CreateUserBegin(p) ==
    /\ pc[p] = "gu_begin"
    /\ \/ ConnBeginOk /\ Goto(p, "gu_ins_user")
       \/ ConnBeginFails /\ Goto(p, "gu_rollback")
    /\ UNCHANGED <<loc, faults, lockVars, nuuid, accepted, pubVars, editVars, cdVars>>

\* INSERT INTO users (discord_user_id, display_name); SELECT last_insert_rowid().
\* The schema declares no uniqueness of discord_user_id (migrations.py:47-50), so
\* the row is inserted next to a row with the same id; on a database whose
\* table carries a unique index the statement raises instead.  Both outcomes.
\* loc.ret: the rowid of the row the call inserted
CreateUserInsert(p) ==
    /\ pc[p] = "gu_ins_user"
    /\ \/ /\ ConnWrite([db EXCEPT !.users = Append(@, [did |-> loc[p].user, acct |-> FALSE])])
          /\ loc' = [loc EXCEPT ![p].ret = Len(db.users) + 1]
          /\ Goto(p, "gu_ins_acct")
       \/ /\ UserRows(db, loc[p].user) # {}
          /\ UNCHANGED <<connVars, loc>>
          /\ Goto(p, "gu_rollback")
    /\ UNCHANGED <<faults, lockVars, nuuid, accepted, pubVars, editVars, cdVars>>

\* INSERT INTO bean_accounts (user_id, balance) VALUES (?, 0)
CreateUserAccount(p) ==
    /\ pc[p] = "gu_ins_acct"
    /\ ConnWrite(IF loc[p].ret \in 1..Len(db.users)
                   THEN [db EXCEPT !.users[loc[p].ret].acct = TRUE]
                   ELSE db)
    /\ Goto(p, "gu_commit")
    /\ UNCHANGED <<loc, faults, lockVars, nuuid, accepted, pubVars, editVars, cdVars>>

\* a statement of create_discord_user raises
CreateUserFails(p) ==
    /\ pc[p] \in {"gu_ins_user", "gu_ins_acct"}
    /\ faults < MaxFaults
    /\ faults' = faults + 1
    /\ inTx' = TRUE
    /\ Goto(p, "gu_rollback")
    /\ UNCHANGED <<db, cdb, loc, lockVars, nuuid, accepted, pubVars, editVars, cdVars>>

\* else: await self.conn.commit()
CreateUserCommit(p) ==
    /\ pc[p] = "gu_commit"
    /\ ConnCommit
    /\ Goto(p, "gu_get")
    /\ UNCHANGED <<loc, faults, lockVars, nuuid, accepted, pubVars, editVars, cdVars>>

\* return await self.get_by_id(user_id): the row, or NotFound
CreateUserReturn(p) ==
    /\ pc[p] = "gu_get"
    /\ Goto(p, IF loc[p].ret \in 1..Len(db.users) /\ db.users[loc[p].ret].did = loc[p].user
                 THEN "ok" ELSE "err")
    /\ UNCHANGED <<connVars, loc, faults, lockVars, nuuid, accepted, pubVars, editVars, cdVars>>

\* except Exception: rollback; raise
CreateUserRollback(p) ==
    /\ pc[p] = "gu_rollback"
    /\ ConnRollback
    /\ Goto(p, "err")
    /\ UNCHANGED <<loc, faults, lockVars, nuuid, accepted, pubVars, editVars, cdVars>>

NextUsers ==
    \E p \in Procs :
        \/ StartGetOrCreate(p)
        \/ GetOrCreateSelect(p)
        \/ CreateUserBegin(p)
        \/ CreateUserInsert(p)
        \/ CreateUserAccount(p)
        \/ CreateUserFails(p)
        \/ CreateUserCommit(p)
        \/ CreateUserReturn(p)
        \/ CreateUserRollback(p)

SpecUsers == Init /\ [][NextUsers]_vars

\* the calls of get_or_create_discord_user for Discord id did
CallsFor(did) == {p \in Procs : loc[p].op = "user" /\ loc[p].user = did}

\* C38: get_or_create_discord_user creates at most one user per Discord id: once
\* the concurrent calls for an id have ended, exactly one committed user row has
\* the id, it has its bean account, and every call has returned that row's id
\* (no statement having failed for a reason of the store).
C38_OneUserPerDiscordId ==
    (AllDone /\ faults = 0) =>
        \A did \in Users :
            CallsFor(did) # {} =>
                /\ Cardinality(UserRows(cdb, did)) = 1
                /\ \A i \in UserRows(cdb, did) : cdb.users[i].acct
                /\ \A p \in CallsFor(did) : pc[p] = "ok" /\ loc[p].ret \in UserRows(cdb, did)


\* ------------------------------------------------------------ Cooldowns.check
\* A key (action, user, location) is modelled by its user: the action is
\* core.daily and the location is one guild.

\* a check that allows every call
CheckAllowed_Always(k) == TRUE

\* last is None, or elapsed = now - last >= cooldown_seconds
CheckAllowed(k) == last[k] = -1 \/ now - last[k] >= CooldownTicks

\* amount = rewards.amount(RewardKey.CORE_DAILY)
DailyAmount == CHOOSE d \in Deltas : d > 0

\* /core daily: cooldowns.try_acquire(...) -> Cooldowns.check (no await inside);
\* not allowed: "Daily already claimed", return; allowed: the stamp is set and
\* award_beans_discord -> apply_transaction follows
DailyCommand(p) ==
    /\ MayStart(p)
    /\ \E k \in Users :
          IF CheckAllowed(k)
            THEN /\ last' = [last EXCEPT ![k] = now]
                 /\ granted' = [granted EXCEPT ![k] = Append(@, now)]
                 /\ loc' = [loc EXCEPT ![p] = [NoLoc EXCEPT !.op = "daily", !.user = k,
                                                        !.delta = DailyAmount]]
                 /\ Goto(p, "ap_begin")
            ELSE /\ loc' = [loc EXCEPT ![p] = [NoLoc EXCEPT !.op = "daily", !.user = k]]
                 /\ Goto(p, "ok")
                 /\ UNCHANGED cdVars
    /\ UNCHANGED <<connVars, faults, lockVars, nuuid, accepted, pubVars, editVars>>

NextCooldowns ==
    \/ Tick
    \/ \E p \in Procs :
        \/ DailyCommand(p)
        \/ ApplyBegin(p)
        \/ ApplyInsertAccount(p)
        \/ ApplyInsertTransaction(p)
        \/ ApplyUpdateBalance(p)
        \/ ApplySelect(p)
        \/ ApplyStatementFails(p)
        \/ ApplyCommit(p)
        \/ ApplyRollback(p)

SpecCooldowns == Init /\ [][NextCooldowns]_vars

\* the daily claims of key k whose award is committed
DailyAwards(k) ==
    {p \in Procs : loc[p].op = "daily" /\ loc[p].user = k /\ HasRowOf(cdb, p)}

\* any two allowed checks of a key are a cooldown apart, and a key has no more
\* committed daily awards than allowed checks
GrantsApart ==
    \A k \in Users :
        /\ \A i \in 1..Len(granted[k]), j \in 1..Len(granted[k]) :
              i < j => granted[k][j] - granted[k][i] >= CooldownTicks
        /\ Cardinality(DailyAwards(k)) <= Len(granted[k])

Amounts == {0} \cup Deltas

\* if amount == 0: return await self.get_balance_discord(...)
ZeroAmountNext == "gb_select"

\* the call up to apply_transaction (the user exists)
StartAward(p) ==
    /\ MayStart(p)
    /\ \E u \in Users, a \in Amounts :
          /\ loc' = [loc EXCEPT ![p] = [NoLoc EXCEPT !.op = "award", !.user = u, !.delta = a]]
          /\ Goto(p, IF a = 0 THEN ZeroAmountNext ELSE "ap_begin")
    /\ UNCHANGED <<connVars, faults, lockVars, nuuid, accepted, pubVars, editVars, cdVars>>

\* if self._publisher: self._publisher.schedule_refresh(); return new_balance
AwardSchedule(p) ==
    /\ pc[p] = "aw_schedule"
    /\ DoScheduleRefresh
    /\ Goto(p, "ok")
    /\ UNCHANGED <<connVars, loc, faults, lockVars, nuuid, accepted, editVars, cdVars>>

\* schedule_refresh raises; except Exception: logger.exception(...); return new_balance
AwardScheduleFails(p) ==
    /\ pc[p] = "aw_schedule"
    /\ faults < MaxFaults
    /\ faults' = faults + 1
    /\ Goto(p, "ok")
    /\ UNCHANGED <<connVars, loc, lockVars, nuuid, accepted, pubVars, editVars, cdVars>>

NextAward ==
    \E p \in Procs :
        \/ StartAward(p)
        \/ GetBalanceSelect(p)
        \/ GetBalanceInsert(p)
        \/ GetBalanceCommit(p)
        \/ ApplyBegin(p)
        \/ ApplyInsertAccount(p)
        \/ ApplyInsertTransaction(p)
        \/ ApplyUpdateBalance(p)
        \/ ApplySelect(p)
        \/ ApplyStatementFails(p)
        \/ ApplyCommit(p)
        \/ ApplyRollback(p)
        \/ AwardSchedule(p)
        \/ AwardScheduleFails(p)

SpecAward == Init /\ [][NextAward]_vars

\* the awards of a non-zero amount that have returned to their caller
ReturnedAwards == {p \in Procs : loc[p].op = "award" /\ loc[p].delta # 0 /\ pc[p] = "ok"}

\* an award of nothing has no transaction row and does not reach the refresh;
\* there are no more refreshes scheduled than awards returned, and, no call
\* having failed, exactly as many; an award that has gone through the refresh
\* has its transaction row committed
SignalsMatchAwards ==
    /\ \A p \in ReturnedAwards : HasRowOf(cdb, p)
    /\ \A p \in Procs :
          (loc[p].op = "award" /\ loc[p].delta = 0) =>
              (~HasRowOf(db, p) /\ pc[p] # "aw_schedule")
    /\ ntasks <= Cardinality(ReturnedAwards)
    /\ faults = 0 => ntasks = Cardinality(ReturnedAwards)

\* C40: award_beans_discord schedules a refresh exactly when it has committed a
\* ledger transaction and only after the commit: the refresh is reached from the
\* commit of apply_transaction only, an award of 0 and a failed award schedule
\* nothing, and a failure inside schedule_refresh lets the award return with the
\* committed tables unchanged.
C40_SignalAfterCommit ==
    /\ []SignalsMatchAwards
    /\ [][\A p \in Procs :
            /\ (pc[p] # "aw_schedule" /\ pc'[p] = "aw_schedule") => ApplyCommit(p)
            /\ (ApplyCommit(p) /\ loc[p].op = "award") => pc'[p] = "aw_schedule"
            /\ (pc[p] = "aw_schedule" /\ pc'[p] # "aw_schedule") => (pc'[p] = "ok" /\ cdb' = cdb)
            /\ ntasks' # ntasks => \E q \in Procs : AwardSchedule(q)]_vars

=============================================================================
